---- MODULE Spec2Model ----
(***************************************************************************)
(* Stylometric feature engine and verticality scoring model.               *)
(*                                                                         *)
(* Numbers.  A JavaScript number that carries decimals is held as an       *)
(* integer count of hundredths (12.34 is 1234); wordCount and              *)
(* maxSentenceLength are plain integers.  Inside computeVerticalityScore    *)
(* the normalised values and the weighted sum are held in units of 1/One,  *)
(* where One is chosen so that every division of the formula is exact      *)
(* for inputs given in hundredths.  The score that computeVerticalityScore *)
(* returns and getAbstractionLevel receives is held in thousandths, so     *)
(* that 0.849 can be told from 0.85.  NaN and Infinity are two integers    *)
(* outside every range the model reaches.                                  *)
(***************************************************************************)
EXTENDS Integers, Sequences, FiniteSets, TLC

VARIABLES
    rawFeatures,        \* computeVerticalityScore: argument rawFeatures
    metaphorDensity,    \* computeVerticalityScore: argument metaphorDensity
    anecdoteFrequency,  \* computeVerticalityScore: argument anecdoteFrequency
    fpTieUp,            \* direction the binary floating-point sum falls on an exact tie
    verticalityScore,   \* result of computeVerticalityScore (thousandths), or Pending
    abstraction,        \* result of getAbstractionLevel for verticalityScore
    prevEgo,            \* the preceding call, when the call was repeated with another egoPronounRate
    levelScore,         \* getAbstractionLevel: argument verticalityScore (thousandths)
    levelResult,        \* getAbstractionLevel: the {level, description} returned
    prevLevel,          \* the preceding call of getAbstractionLevel and its result
    classification,     \* getVerticalityClassification: the string returned for levelScore
    inputText,          \* computeRawFeatures: argument text
    pieceCount,         \* the number of pieces of the vocabulary inputText is made of
    features,           \* outcome of computeRawFeatures(inputText): what it threw, what it returned
    lastIndex,          \* the match position each regular expression holds between calls
    firstCall,          \* the first call of computeRawFeatures with a text of one piece, and its outcome
    revisited,          \* the last call repeated the text of firstCall after other texts
    requests,           \* the compare requests in progress: where each stands and what it holds
    history,            \* storage: the userId of each row of analysis_history, NoRow when there is none
    historyRequests,    \* the GET and DELETE /api/history/:id requests in progress
    deletedBy,          \* for each row, the id of the user whose request deleted it
    intelligence,       \* the last response of /api/intelligence or /api/intelligence/compare
    gate,               \* a stylometrics request, its body, and how far its handler let it
    run,                \* handleProcess: its position, its locals, the component's state, the requests it issued
    partials,           \* storage: the rows that /api/history/save-partial created
    tokens,             \* the words inputText was written with, when it was written word by word
    analysis,           \* a POST /api/analyze request: where it stands, its storage calls, its response
    chunked,            \* the text given to splitIntoChunks, by its words, and the chunks returned
    reply,              \* a stylometrics analysis: the LLM's JSON and the data sent to the client
    users,              \* storage: the usernames of the rows of users, by id
    profiles,           \* storage: the rows of stylometric_authors
    authorRequests      \* the requests on author profiles in progress

scoreVars == <<rawFeatures, metaphorDensity, anecdoteFrequency, fpTieUp,
               verticalityScore, abstraction, prevEgo>>

levelVars == <<levelScore, levelResult, prevLevel, classification>>

featureVars == <<inputText, pieceCount, features, lastIndex, firstCall, revisited>>

compareVars == <<requests>>

historyVars == <<history, historyRequests, deletedBy>>

intelligenceVars == <<intelligence>>

gateVars == <<gate>>

processVars == <<run, partials>>

tokenVars == <<tokens>>

analysisVars == <<analysis>>

chunkVars == <<chunked>>

replyVars == <<reply>>

authorVars == <<users, profiles, authorRequests>>

restVars == <<analysisVars, chunkVars, replyVars, authorVars>>

handlerVars ==
    <<compareVars, historyVars, intelligenceVars, gateVars, processVars, tokenVars, restVars>>

\* the variables of the features, the scorer and the handlers above
olderVars ==
    <<featureVars, scoreVars, levelVars, compareVars, historyVars, intelligenceVars, gateVars,
      processVars, tokenVars>>

vars == <<scoreVars, levelVars, featureVars, handlerVars>>

----------------------------------------------------------------------------
(* JavaScript numbers *)

NaN == 0 - 10^9
Infinity == 10^9
Pending == 0 - 2 * 10^9 + 1

IsFinite(x) == x # NaN /\ x # Infinity

Max2(a, b) == IF a >= b THEN a ELSE b
Min2(a, b) == IF a <= b THEN a ELSE b

\* Math.max(a, b), Math.min(a, b): NaN if either argument is NaN
MathMax(a, b) == IF a = NaN \/ b = NaN THEN NaN ELSE Max2(a, b)

MathMin(a, b) == IF a = NaN \/ b = NaN THEN NaN ELSE Min2(a, b)

\* a + b and a - b of two numbers, NaN when either is NaN
Plus(a, b) == IF a = NaN \/ b = NaN THEN NaN ELSE a + b
Minus(a, b) == IF a = NaN \/ b = NaN THEN NaN ELSE a - b

\* (num / den) * x for a decimal literal num/den, NaN when x is NaN
Times(num, den, x) == IF x = NaN THEN NaN ELSE (x * num) \div den

\* The fixed-point unit of the scorer: One stands for 1.0.
One == 80 * 20 * 15 * 20

\* Math.round(x * 100) for x in units of 1/One: the nearest integer, an exact
\* half going up.  The code forms x as a sum of binary doubles, whose error
\* (about 1e-16) decides which side of an exact half the sum falls on; tieUp
\* is that side.
MathRound100(x, tieUp) ==
    IF x = NaN THEN NaN
    ELSE LET twice == 2 * 100 * x
             down == twice \div (2 * One)
             rem == twice % (2 * One)
         IN  IF rem > One THEN down + 1
             ELSE IF rem < One THEN down
             ELSE IF tieUp THEN down + 1 ELSE down

----------------------------------------------------------------------------
(* Text: a string; CharAt(s, i) is its i-th character, counted from 1 *)

CharAt(s, i) == SubSeq(s, i, i)

\* U+2014, written with a character of the module's character set
EmDash == "~"

\* \s
WhitespaceChars == {" ", "\n", "\t", "\r", "\f"}

\* [.!?]
SentenceEndChars == {".", "!", "?"}

\* \d
Digits == {"0", "1", "2", "3", "4", "5", "6", "7", "8", "9"}

LowerLetters ==
    {"a", "b", "c", "d", "e", "f", "g", "h", "i", "j", "k", "l", "m",
     "n", "o", "p", "q", "r", "s", "t", "u", "v", "w", "x", "y", "z"}

UpperLetters ==
    {"A", "B", "C", "D", "E", "F", "G", "H", "I", "J", "K", "L", "M",
     "N", "O", "P", "Q", "R", "S", "T", "U", "V", "W", "X", "Y", "Z"}

\* \w
WordChars == LowerLetters \cup UpperLetters \cup Digits \cup {"_"}

UpperAlphabet == "ABCDEFGHIJKLMNOPQRSTUVWXYZ"
LowerAlphabet == "abcdefghijklmnopqrstuvwxyz"

LowerChar(c) ==
    IF c \in UpperLetters
    THEN CharAt(LowerAlphabet, CHOOSE i \in 1..26 : CharAt(UpperAlphabet, i) = c)
    ELSE c

\* s.toLowerCase()
RECURSIVE toLowerCase(_)
toLowerCase(s) ==
    IF s = "" THEN "" ELSE LowerChar(CharAt(s, 1)) \o toLowerCase(SubSeq(s, 2, Len(s)))

\* s.replace(/[chars]/g, ''): every character of the class is removed,
\* wherever it stands in s
RECURSIVE RemoveChars(_, _)
RemoveChars(s, chars) ==
    IF s = "" THEN ""
    ELSE (IF CharAt(s, 1) \in chars THEN "" ELSE CharAt(s, 1))
            \o RemoveChars(SubSeq(s, 2, Len(s)), chars)

\* the number of consecutive characters of the class from position i on
RECURSIVE RunLength(_, _, _)
RunLength(s, i, class) ==
    IF i > Len(s) \/ CharAt(s, i) \notin class THEN 0 ELSE 1 + RunLength(s, i + 1, class)

\* the length of the match of /\s+/ that starts at i, 0 when there is none
WhitespaceAt(s, i) == RunLength(s, i, WhitespaceChars)

\* the length of the match of /[.!?]+\s+/ that starts at i, 0 when there is none
SentenceEndAt(s, i) ==
    LET p == RunLength(s, i, SentenceEndChars)
        w == RunLength(s, i + p, WhitespaceChars)
    IN  IF p > 0 /\ w > 0 THEN p + w ELSE 0

SeparatorAt(separator, s, i) ==
    IF separator = "whitespace" THEN WhitespaceAt(s, i) ELSE SentenceEndAt(s, i)

\* s.split(separator): the pieces between the matches of the separator, the
\* empty pieces before a leading and after a trailing match included
RECURSIVE SplitFrom(_, _, _, _)
SplitFrom(s, separator, start, q) ==
    IF q > Len(s) THEN <<SubSeq(s, start, Len(s))>>
    ELSE LET n == SeparatorAt(separator, s, q)
         IN  IF n > 0
             THEN <<SubSeq(s, start, q - 1)>> \o SplitFrom(s, separator, q + n, q + n)
             ELSE SplitFrom(s, separator, start, q + 1)

split(s, separator) == SplitFrom(s, separator, 1, 1)

\* pieces.filter(Boolean): the empty strings are dropped
FilterBoolean(pieces) == SelectSeq(pieces, LAMBDA w : w # "")

\* s.split(/\s+/).filter(Boolean)
WordsOf(s) == FilterBoolean(split(s, "whitespace"))

----------------------------------------------------------------------------
(* Regular expressions with the g flag, and String.prototype.match *)

Literal(lit) == [kind |-> "literal", alts |-> <<lit>>]
Phrase(alts) == [kind |-> "phrase", alts |-> alts]

\* The regular expressions of computeRawFeatures, in the order it uses them:
\* /;/g /:/g /\d:\d/g /(em dash)/g /--/g /\?/g and impersonalPatterns.  A
\* phrase is matched between word boundaries, ignoring case; its spellings
\* are tried in order (the longer first, as the greedy s? does).
RegExps ==
    <<Literal(";"), Literal(":"), [kind |-> "digitColonDigit", alts |-> <<>>],
      Literal(EmDash), Literal("--"), Literal("?"),
      Phrase(<<"it is">>), Phrase(<<"it was">>), Phrase(<<"it has been">>),
      Phrase(<<"it would be">>), Phrase(<<"there is">>), Phrase(<<"there are">>),
      Phrase(<<"there was">>), Phrase(<<"there were">>),
      Phrase(<<"there exists", "there exist">>), Phrase(<<"one may">>),
      Phrase(<<"one can">>), Phrase(<<"one cannot">>), Phrase(<<"one must">>),
      Phrase(<<"one might">>), Phrase(<<"this does not mean">>),
      Phrase(<<"what this indicates">>), Phrase(<<"it is to be noted">>),
      Phrase(<<"to the extent that">>), Phrase(<<"insofar as">>),
      Phrase(<<"inasmuch as">>)>>

SemicolonRe == 1
ColonRe == 2
DigitColonDigitRe == 3
EmDashRe == 4
DoubleHyphenRe == 5
QuestionRe == 6
ImpersonalRes == 7..26

\* mutant of WordBoundaryBefore: \b is not tested
WordBoundaryAnywhere(s, i) == TRUE

\* \b at the gap before position i: a word character on exactly one side
WordBoundaryBefore(s, i) ==
    LET left == i > 1 /\ i - 1 <= Len(s) /\ CharAt(s, i - 1) \in WordChars
        right == i >= 1 /\ i <= Len(s) /\ CharAt(s, i) \in WordChars
    IN  left # right

\* the literal at position i
LiteralAt(s, i, lit) ==
    IF i + Len(lit) - 1 <= Len(s) /\ SubSeq(s, i, i + Len(lit) - 1) = lit THEN Len(lit) ELSE 0

\* \b spelling \b at position i, ignoring case
SpellingAt(s, i, spelling) ==
    IF /\ i + Len(spelling) - 1 <= Len(s)
       /\ LowerChar(CharAt(s, i)) = CharAt(spelling, 1)
       /\ toLowerCase(SubSeq(s, i, i + Len(spelling) - 1)) = spelling
       /\ WordBoundaryBefore(s, i)
       /\ WordBoundaryBefore(s, i + Len(spelling))
    THEN Len(spelling) ELSE 0

RECURSIVE FirstSpellingAt(_, _, _, _)
FirstSpellingAt(s, i, alts, k) ==
    IF k > Len(alts) THEN 0
    ELSE LET n == SpellingAt(s, i, alts[k])
         IN  IF n > 0 THEN n ELSE FirstSpellingAt(s, i, alts, k + 1)

\* the length of the match of the regular expression that starts at i, 0 when
\* there is none
MatchAt(s, i, re) ==
    IF re.kind = "literal" THEN LiteralAt(s, i, re.alts[1])
    ELSE IF re.kind = "digitColonDigit" THEN
        (IF /\ i + 2 <= Len(s)
            /\ CharAt(s, i) \in Digits
            /\ CharAt(s, i + 1) = ":"
            /\ CharAt(s, i + 2) \in Digits
         THEN 3 ELSE 0)
    ELSE FirstSpellingAt(s, i, re.alts, 1)

\* the matches from position i on, leftmost first, each search resuming where
\* the last match ended: their number and the end of the last one
RECURSIVE MatchesFrom(_, _, _, _, _)
MatchesFrom(s, i, re, count, lastEnd) ==
    IF i > Len(s) THEN [count |-> count, lastEnd |-> lastEnd]
    ELSE LET n == MatchAt(s, i, re)
         IN  IF n > 0 THEN MatchesFrom(s, i + n, re, count + 1, i + n - 1)
             ELSE MatchesFrom(s, i + 1, re, count, lastEnd)

\* mutant of GlobalMatch: the search starts at the position the expression
\* retains (its lastIndex) and leaves the end of its last match there, as a
\* shared expression used through exec() or test() does
GlobalMatchRetainsPosition(s, re, retained) ==
    LET found == MatchesFrom(s, retained + 1, re, 0, 0)
    IN  [isNull |-> found.count = 0, length |-> found.count, lastIndex |-> found.lastEnd]

\* s.match(re) for an expression with the g flag: lastIndex is set to 0, all
\* matches are collected, lastIndex is 0 afterwards; null when nothing matches
GlobalMatch(s, re, retained) ==
    LET found == MatchesFrom(s, 1, re, 0, 0)
    IN  [isNull |-> found.count = 0, length |-> found.count, lastIndex |-> 0]

\* mutant of OrEmpty: the || [] is missing
OrEmptyMissing(m) == m

\* m || []
OrEmpty(m) == IF m.isNull THEN [isNull |-> FALSE, length |-> 0, lastIndex |-> m.lastIndex] ELSE m

\* what a computation that has thrown yields in place of a number
TypeErrorThrown == 0 - 10^9 - 3
RangeErrorThrown == 0 - 10^9 - 4

\* m.length: a TypeError on null
LengthOf(m) == IF m.isNull THEN TypeErrorThrown ELSE m.length

----------------------------------------------------------------------------
(* computeRawFeatures *)

\* a quotient num/den of two counts; den = 0 is a division by zero
Ratio(num, den) == [num |-> num, den |-> den]

RatioLe(a, b) == a.num * b.den <= b.num * a.den
RatioMax(a, b) == IF RatioLe(a, b) THEN b ELSE a
RatioMin(a, b) == IF RatioLe(a, b) THEN a ELSE b

\* Math.round(x * factor) of a quotient x: 0/0 is NaN and n/0 Infinity, which
\* Math.round leaves as they are; an exact half goes up
RoundTimes(x, factor) ==
    IF x.den = 0 THEN (IF x.num = 0 THEN NaN ELSE Infinity)
    ELSE (2 * x.num * factor + x.den) \div (2 * x.den)

\* Math.round(x * 100) / 100 and Math.round(x * 10) / 10, in hundredths
RoundTo2(x) == RoundTimes(x, 100)
RoundTo1(x) == LET r == RoundTimes(x, 10) IN IF IsFinite(r) THEN r * 10 ELSE r

\* mutant of RatePer1000: the wordCount > 0 guard is missing
RatePer1000Unguarded(count, wordCount) == Ratio(count * 1000, wordCount)

\* wordCount > 0 ? (count / wordCount) * 1000 : 0
RatePer1000(count, wordCount) ==
    IF wordCount > 0 THEN Ratio(count * 1000, wordCount) ELSE Ratio(0, 1)

egoPronounsList == {"i", "me", "my", "mine", "myself", "we", "us", "our", "ours", "ourselves"}

\* [.,;:!?"']
EgoStripChars == {".", ",", ";", ":", "!", "?", "\"", "'"}

subordinators ==
    {"that", "which", "who", "whom", "whose", "where", "when", "while",
     "although", "because", "since", "if", "unless", "until", "before",
     "after", "as", "whereas", "whenever", "wherever", "whether"}

\* [.,;:]
SubordinatorStripChars == {".", ",", ";", ":"}

RECURSIVE SumSeq(_)
SumSeq(q) == IF q = <<>> THEN 0 ELSE Head(q) + SumSeq(Tail(q))

RECURSIVE MaxSeq(_)
MaxSeq(q) == IF Len(q) = 1 THEN Head(q) ELSE Max2(Head(q), MaxSeq(Tail(q)))

\* The number of arguments the engine accepts in one call.  A call spread
\* over more (Math.max(...array)) throws a RangeError.  Engines set the
\* limit near 10^5; the model scales it to the length of its texts.
EngineMaxArguments == 2

\* Math.max(...counts) for a non-empty array
MathMaxSpread(counts) ==
    IF Len(counts) > EngineMaxArguments THEN RangeErrorThrown ELSE MaxSeq(counts)

\* mutant of Qualifies: every fragment with a word is a sentence
QualifiesWithAWord(fragment) == Len(WordsOf(fragment)) > 0

\* s.split(/\s+/).filter(Boolean).length > 2
Qualifies(fragment) == Len(WordsOf(fragment)) > 2

\* text.match(re) for each of the regular expressions from re on, in order
RECURSIVE MatchEach(_, _, _)
MatchEach(s, lastIndexes, re) ==
    IF re > Len(RegExps) THEN <<>>
    ELSE <<GlobalMatch(s, RegExps[re], lastIndexes[re])>> \o MatchEach(s, lastIndexes, re + 1)

NoFeatures ==
    [wordCount |-> 0, egoPronounRate |-> 0, avgSentenceLength |-> 0, maxSentenceLength |-> 0,
     subordinationDepth |-> 0, semicolonFreq |-> 0, colonFreq |-> 0, dashFreq |-> 0,
     questionFreq |-> 0, impersonalRate |-> 0]

\* computeRawFeatures(text), entered with the regular expressions holding the
\* match positions lastIndexes: what it throws ("" when it returns), the
\* RawFeatures it returns and the positions the expressions hold afterwards
computeRawFeatures(text, lastIndexes) ==
    LET words == WordsOf(text)
        wordCount == Len(words)
        egoPronounCount ==
            Len(SelectSeq(words,
                LAMBDA word : RemoveChars(toLowerCase(word), EgoStripChars) \in egoPronounsList))
        egoPronounRate == RatePer1000(egoPronounCount, wordCount)
        sentences == SelectSeq(split(text, "sentence"), Qualifies)
        sentenceWordCounts == [i \in 1..Len(sentences) |-> Len(WordsOf(sentences[i]))]
        avgSentenceLength ==
            IF Len(sentenceWordCounts) > 0
            THEN Ratio(SumSeq(sentenceWordCounts), Len(sentenceWordCounts))
            ELSE Ratio(0, 1)
        maxSentenceLength ==
            IF Len(sentenceWordCounts) > 0 THEN MathMaxSpread(sentenceWordCounts) ELSE 0
        subordinatorCount ==
            Len(SelectSeq(words,
                LAMBDA word : RemoveChars(toLowerCase(word), SubordinatorStripChars) \in subordinators))
        subordinationDepth ==
            IF Len(sentences) > 0
            THEN RatioMin(Ratio(7, 1),
                          RatioMax(Ratio(1, 1), Ratio(subordinatorCount * 3, Len(sentences) * 2)))
            ELSE Ratio(1, 1)
        matches == MatchEach(text, lastIndexes, 1)
        lengthOf(re) == LengthOf(OrEmpty(matches[re]))
        semicolonCount == lengthOf(SemicolonRe)
        colonCount == lengthOf(ColonRe) - lengthOf(DigitColonDigitRe)
        dashCount == lengthOf(EmDashRe) + lengthOf(DoubleHyphenRe)
        questionCount == lengthOf(QuestionRe)
        semicolonFreq == RatePer1000(semicolonCount, wordCount)
        colonFreq == RatePer1000(Max2(0, colonCount), wordCount)
        dashFreq == RatePer1000(dashCount, wordCount)
        questionFreq == RatePer1000(questionCount, wordCount)
        impersonalLengths == [k \in 1..Cardinality(ImpersonalRes) |-> lengthOf(6 + k)]
        impersonalCount == SumSeq(impersonalLengths)
        impersonalRate == RatePer1000(impersonalCount, wordCount)
        after == [re \in 1..Len(RegExps) |-> matches[re].lastIndex]
        thrown ==
            IF maxSentenceLength = RangeErrorThrown THEN "RangeError"
            ELSE IF \E re \in 1..Len(RegExps) : lengthOf(re) = TypeErrorThrown THEN "TypeError"
            ELSE ""
    IN  IF thrown # "" THEN [threw |-> thrown, value |-> NoFeatures, lastIndex |-> after]
        ELSE [threw |-> "",
              value |->
                [wordCount |-> wordCount,
                 egoPronounRate |-> RoundTo2(egoPronounRate),
                 avgSentenceLength |-> RoundTo1(avgSentenceLength),
                 maxSentenceLength |-> maxSentenceLength,
                 subordinationDepth |-> RoundTo1(subordinationDepth),
                 semicolonFreq |-> RoundTo2(semicolonFreq),
                 colonFreq |-> RoundTo2(colonFreq),
                 dashFreq |-> RoundTo2(dashFreq),
                 questionFreq |-> RoundTo2(questionFreq),
                 impersonalRate |-> RoundTo2(impersonalRate)],
              lastIndex |-> after]

----------------------------------------------------------------------------
(* computeVerticalityScore *)

\* an argument that is not passed (undefined)
Absent == "<absent>"

\* a default parameter value: used when the argument is undefined
DefaultArg(arg, dflt) == IF arg = Absent THEN dflt ELSE arg

\* Values a property read can give besides a number: undefined, and a
\* function or object inherited from Object.prototype.
UndefinedValue == 0 - 10^9 - 1
InheritedObject == 0 - 10^9 - 2

\* The names every object literal inherits from Object.prototype.
ObjectPrototypeKeys ==
    {"constructor", "toString", "valueOf", "hasOwnProperty", "isPrototypeOf",
     "propertyIsEnumerable", "toLocaleString", "__proto__"}

\* obj[key] on an object literal: its own property, else the inherited one,
\* else undefined
PropertyGet(obj, key) ==
    IF key \in DOMAIN obj THEN obj[key]
    ELSE IF key \in ObjectPrototypeKeys THEN InheritedObject
    ELSE UndefinedValue

\* v ?? dflt: dflt only when v is null or undefined
Nullish(v, dflt) == IF v = UndefinedValue THEN dflt ELSE v

\* the number an operand of * is converted to: a function or object gives NaN
ToNumber(v) == IF v = InheritedObject THEN NaN ELSE v

metaphorScores ==
    [none |-> One, low |-> (3 * One) \div 4, moderate |-> One \div 2, high |-> 0]

anecdoteScores ==
    [none |-> One, rare |-> (3 * One) \div 4, occasional |-> One \div 2, frequent |-> 0]

\* normalize(value, minVal, maxVal): value in hundredths, minVal and maxVal
\* whole numbers; the result in units of 1/One.  One is a multiple of every
\* (maxVal - minVal) * 100 of the formula, so the quotient is exact.
normalize(value, minVal, maxVal) ==
    MathMax(0, MathMin(One, (value - minVal * 100) * (One \div ((maxVal - minVal) * 100))))

\* mutant of Verticality: the semicolon term reads colonFreq
VerticalityReadsColon(f, metaphorDensityArg, anecdoteFrequencyArg) ==
    LET t1 == Times(25, 100, Minus(One, normalize(f.egoPronounRate, 0, 80)))
        t2 == Times(15, 100, normalize(f.impersonalRate, 0, 20))
        t3 == Times(15, 100, normalize(f.subordinationDepth, 1, 7))
        t4 == Times(10, 100, normalize(f.colonFreq, 0, 15))
        t5 == Times(10, 100, Minus(One, normalize(f.dashFreq, 0, 20)))
        t6 == Times(10, 100, Minus(One, normalize(f.questionFreq, 0, 10)))
        t7 == Times(75, 1000,
                    ToNumber(Nullish(PropertyGet(metaphorScores, metaphorDensityArg), One \div 2)))
        t8 == Times(75, 1000,
                    ToNumber(Nullish(PropertyGet(anecdoteScores, anecdoteFrequencyArg), One \div 2)))
    IN  Plus(Plus(Plus(Plus(Plus(Plus(Plus(t1, t2), t3), t4), t5), t6), t7), t8)

\* mutant of Verticality: the ego-pronoun term is not inverted
VerticalityEgoNotInverted(f, metaphorDensityArg, anecdoteFrequencyArg) ==
    LET t1 == Times(25, 100, normalize(f.egoPronounRate, 0, 80))
        t2 == Times(15, 100, normalize(f.impersonalRate, 0, 20))
        t3 == Times(15, 100, normalize(f.subordinationDepth, 1, 7))
        t4 == Times(10, 100, normalize(f.semicolonFreq, 0, 15))
        t5 == Times(10, 100, Minus(One, normalize(f.dashFreq, 0, 20)))
        t6 == Times(10, 100, Minus(One, normalize(f.questionFreq, 0, 10)))
        t7 == Times(75, 1000,
                    ToNumber(Nullish(PropertyGet(metaphorScores, metaphorDensityArg), One \div 2)))
        t8 == Times(75, 1000,
                    ToNumber(Nullish(PropertyGet(anecdoteScores, anecdoteFrequencyArg), One \div 2)))
    IN  Plus(Plus(Plus(Plus(Plus(Plus(Plus(t1, t2), t3), t4), t5), t6), t7), t8)

\* the weighted sum, in units of 1/One
Verticality(f, metaphorDensityArg, anecdoteFrequencyArg) ==
    LET t1 == Times(25, 100, Minus(One, normalize(f.egoPronounRate, 0, 80)))
        t2 == Times(15, 100, normalize(f.impersonalRate, 0, 20))
        t3 == Times(15, 100, normalize(f.subordinationDepth, 1, 7))
        t4 == Times(10, 100, normalize(f.semicolonFreq, 0, 15))
        t5 == Times(10, 100, Minus(One, normalize(f.dashFreq, 0, 20)))
        t6 == Times(10, 100, Minus(One, normalize(f.questionFreq, 0, 10)))
        t7 == Times(75, 1000,
                    ToNumber(Nullish(PropertyGet(metaphorScores, metaphorDensityArg), One \div 2)))
        t8 == Times(75, 1000,
                    ToNumber(Nullish(PropertyGet(anecdoteScores, anecdoteFrequencyArg), One \div 2)))
    IN  Plus(Plus(Plus(Plus(Plus(Plus(Plus(t1, t2), t3), t4), t5), t6), t7), t8)

\* mutant of computeVerticalityScore: the clamped sum is returned as it is,
\* not rounded to two decimals (to the thousandth the model can hold)
computeVerticalityScoreUnrounded(f, metaphorDensityArg, anecdoteFrequencyArg, tieUp) ==
    LET m == DefaultArg(metaphorDensityArg, "moderate")
        a == DefaultArg(anecdoteFrequencyArg, "occasional")
        clamped == MathMax(0, MathMin(One, Verticality(f, m, a)))
    IN  IF clamped = NaN THEN NaN ELSE (1000 * clamped) \div One

\* computeVerticalityScore(rawFeatures, metaphorDensity = 'moderate',
\* anecdoteFrequency = 'occasional'); the result in thousandths
computeVerticalityScore(f, metaphorDensityArg, anecdoteFrequencyArg, tieUp) ==
    LET m == DefaultArg(metaphorDensityArg, "moderate")
        a == DefaultArg(anecdoteFrequencyArg, "occasional")
        verticality == Verticality(f, m, a)
        rounded == MathRound100(MathMax(0, MathMin(One, verticality)), tieUp)
    IN  IF rounded = NaN THEN NaN ELSE rounded * 10

----------------------------------------------------------------------------
(* getAbstractionLevel *)

\* a >= b and a > b of two numbers: false when either is NaN
Ge(a, b) == a # NaN /\ b # NaN /\ a >= b
Gt(a, b) == a # NaN /\ b # NaN /\ a > b

NoAbstraction == [level |-> "", description |-> ""]

\* mutant of getAbstractionLevel: the 0.85 boundary is exclusive
getAbstractionLevelAbove85(score) ==
    IF Gt(score, 850) THEN
        [level |-> "Extreme Abstraction",
         description |-> "Prose operates at the level of pure logical relations. No particulars survive. Variables, not names. Structure, not story."]
    ELSE IF Ge(score, 600) THEN
        [level |-> "High Abstraction",
         description |-> "Conceptual architecture dominates. Concrete examples appear but are subordinated to logical structure."]
    ELSE IF Ge(score, 400) THEN
        [level |-> "Mixed",
         description |-> "Abstraction and particularity in tension. Neither dominates."]
    ELSE IF Ge(score, 200) THEN
        [level |-> "Low Abstraction",
         description |-> "Concrete particulars dominate. Concepts emerge from stories, examples, and sensory detail."]
    ELSE
        [level |-> "Extreme Concreteness",
         description |-> "Pure sensory/narrative immersion. Abstraction dissolved into bodies, voices, and experience."]

\* mutant of getAbstractionLevel: the 0.60 boundary is exclusive
getAbstractionLevelExclusive(score) ==
    IF Ge(score, 850) THEN
        [level |-> "Extreme Abstraction",
         description |-> "Prose operates at the level of pure logical relations. No particulars survive. Variables, not names. Structure, not story."]
    ELSE IF Ge(score, 601) THEN
        [level |-> "High Abstraction",
         description |-> "Conceptual architecture dominates. Concrete examples appear but are subordinated to logical structure."]
    ELSE IF Ge(score, 400) THEN
        [level |-> "Mixed",
         description |-> "Abstraction and particularity in tension. Neither dominates."]
    ELSE IF Ge(score, 200) THEN
        [level |-> "Low Abstraction",
         description |-> "Concrete particulars dominate. Concepts emerge from stories, examples, and sensory detail."]
    ELSE
        [level |-> "Extreme Concreteness",
         description |-> "Pure sensory/narrative immersion. Abstraction dissolved into bodies, voices, and experience."]

getAbstractionLevel(score) ==
    IF Ge(score, 850) THEN
        [level |-> "Extreme Abstraction",
         description |-> "Prose operates at the level of pure logical relations. No particulars survive. Variables, not names. Structure, not story."]
    ELSE IF Ge(score, 600) THEN
        [level |-> "High Abstraction",
         description |-> "Conceptual architecture dominates. Concrete examples appear but are subordinated to logical structure."]
    ELSE IF Ge(score, 400) THEN
        [level |-> "Mixed",
         description |-> "Abstraction and particularity in tension. Neither dominates."]
    ELSE IF Ge(score, 200) THEN
        [level |-> "Low Abstraction",
         description |-> "Concrete particulars dominate. Concepts emerge from stories, examples, and sensory detail."]
    ELSE
        [level |-> "Extreme Concreteness",
         description |-> "Pure sensory/narrative immersion. Abstraction dissolved into bodies, voices, and experience."]

----------------------------------------------------------------------------
(* getVerticalityClassification *)

\* mutant of getVerticalityClassification: the second threshold is the 0.60
\* of getAbstractionLevel
getVerticalityClassificationAt60(score) ==
    IF Ge(score, 850) THEN "Extreme Vertical"
    ELSE IF Ge(score, 600) THEN "High Vertical"
    ELSE IF Ge(score, 400) THEN "Mid-Range"
    ELSE IF Ge(score, 200) THEN "Low Vertical / Moderate Horizontal"
    ELSE "Extreme Horizontal"

getVerticalityClassification(score) ==
    IF Ge(score, 850) THEN "Extreme Vertical"
    ELSE IF Ge(score, 700) THEN "High Vertical"
    ELSE IF Ge(score, 400) THEN "Mid-Range"
    ELSE IF Ge(score, 200) THEN "Low Vertical / Moderate Horizontal"
    ELSE "Extreme Horizontal"

----------------------------------------------------------------------------
(* The state before any call *)

NoPrev == [egoPronounRate |-> 0, score |-> Pending]

NoLevelCall == [score |-> Pending, level |-> "", description |-> ""]

\* no call of getAbstractionLevel on its own has been made
LevelIdle ==
    /\ levelScore = Pending
    /\ levelResult = NoAbstraction
    /\ prevLevel = NoLevelCall
    /\ classification = ""

ZeroFeatures ==
    [wordCount |-> 0, egoPronounRate |-> 0, avgSentenceLength |-> 0, maxSentenceLength |-> 0,
     subordinationDepth |-> 100, semicolonFreq |-> 0, colonFreq |-> 0, dashFreq |-> 0,
     questionFreq |-> 0, impersonalRate |-> 0]

\* no call of computeVerticalityScore has been made
ScoreIdle ==
    /\ rawFeatures = ZeroFeatures
    /\ metaphorDensity = Absent
    /\ anecdoteFrequency = Absent
    /\ fpTieUp = TRUE
    /\ verticalityScore = Pending
    /\ abstraction = NoAbstraction
    /\ prevEgo = NoPrev

ZeroLastIndexes == [re \in 1..Len(RegExps) |-> 0]

NotCalled == [threw |-> "not called", value |-> NoFeatures]

NoFirstCall == [text |-> "", threw |-> "not called", value |-> NoFeatures]

\* no call of computeRawFeatures has been made
FeaturesIdle ==
    /\ inputText = ""
    /\ pieceCount = 0
    /\ features = NotCalled
    /\ lastIndex = ZeroLastIndexes
    /\ firstCall = NoFirstCall
    /\ revisited = FALSE

\* The compare requests the server can have in progress at once.
Requests == {1, 2}

NoOutcome == [threw |-> "not called", value |-> NoFeatures]

\* what an invocation of the compare handler holds in its local constants
\* before it has run
NewRequest ==
    [pc |-> "new", textA |-> "", textB |-> "",
     rawFeaturesA |-> NoOutcome, rawFeaturesB |-> NoOutcome,
     llmResult |-> <<>>,
     scoreA |-> Pending, absA |-> NoAbstraction,
     scoreB |-> Pending, absB |-> NoAbstraction,
     status |-> 0, overlapped |-> FALSE]

\* no compare request has arrived
CompareIdle == requests = [r \in Requests |-> NewRequest]

\* The rows of the users table: usernames are stored trimmed and in lower
\* case, ids are serial.
UserIds == [alice |-> 1, bob |-> 2]

\* The ids a request can name: the rows of analysis_history, MaxItems of
\* them, and one id beyond them that no row has.
MaxItems == 2

ItemIds == 1..(MaxItems + 1)

NoRow == 0

\* analysis_history at the start: row i belongs to alice when i is odd, to
\* bob when it is even
Owners == [id \in ItemIds |-> IF id > MaxItems THEN NoRow ELSE 2 - (id % 2)]

HistoryRequesters == {1, 2}

NoUser == 0

NewHistoryRequest ==
    [pc |-> "new", method |-> "", username |-> "", id |-> 0, user |-> NoUser, item |-> NoRow,
     status |-> 0, body |-> NoRow, deleted |-> FALSE]

\* no history request has arrived, no row has been deleted
HistoryIdle ==
    /\ history = Owners
    /\ historyRequests = [r \in HistoryRequesters |-> NewHistoryRequest]
    /\ deletedBy = [id \in ItemIds |-> NoUser]

NoIntelligence == [route |-> "none", texts |-> <<>>]

\* no intelligence request has been answered
IntelligenceIdle == intelligence = NoIntelligence

NoGate == [endpoint |-> "none", texts |-> <<>>, authorNames |-> <<>>, status |-> 0, reached |-> ""]

\* no stylometrics request has arrived
GateIdle == gate = NoGate

NoChunk == 0

NoResult == <<>>

NoRun == [pc |-> "idle", runs |-> 0, username |-> Absent, chunksToProcess |-> <<>>, i |-> 0,
          results |-> <<>>, failedChunkIndex |-> 0 - 1, isProcessing |-> FALSE,
          hasResult |-> FALSE, chunkResults |-> <<>>, result |-> NoResult,
          lastFailedChunkIndex |-> NoChunk, sent |-> <<>>]

\* the page as it is before handleProcess was ever called, and no row saved
ProcessIdle == run = NoRun /\ partials = <<>>

\* no text was written word by word
TokensIdle == tokens = <<>>

NoAnalysis ==
    [pc |-> "none", username |-> "<absent>", fields |-> <<>>, resolved |-> FALSE,
     threw |-> FALSE, calls |-> <<>>, status |-> 0, body |-> ""]

\* no /api/analyze request has arrived
AnalysisIdle == analysis = NoAnalysis

\* splitIntoChunks has not been called
ChunksIdle ==
    chunked = [text |-> [words |-> <<>>, lead |-> FALSE, trail |-> FALSE], chunks |-> <<>>,
               called |-> FALSE]

ReplyIdle == reply = [pc |-> "none"]

\* storage is empty and no request on author profiles has arrived
AuthorsIdle ==
    /\ users = <<>>
    /\ profiles = <<>>
    /\ authorRequests = [r \in {1, 2} |->
          [pc |-> "new", kind |-> "", username |-> "<absent>", authorName |-> "<absent>",
           id |-> 0, user |-> 0, existing |-> 0, status |-> 0, body |-> {},
           afterSave |-> 0]]

RestIdle == AnalysisIdle /\ ChunksIdle /\ ReplyIdle /\ AuthorsIdle

HandlersIdle ==
    /\ CompareIdle /\ HistoryIdle /\ IntelligenceIdle /\ GateIdle /\ ProcessIdle /\ TokensIdle
    /\ RestIdle

----------------------------------------------------------------------------
(* computeRawFeatures applied to bounded inputs *)

\* The texts are the concatenations of at most MaxPieces pieces of the
\* vocabulary: the two kinds of whitespace, an ego pronoun, a subordinator, a
\* three-word sentence that holds an impersonal construction and ends a
\* sentence, and the punctuation the function counts.
MaxPieces == 3

Vocabulary == {" ", "\n", "I", "if", "it is so. ", "?", ";", ":", "1", "--", EmDash}

InitFeatures == FeaturesIdle /\ ScoreIdle /\ LevelIdle /\ HandlersIdle

\* routes.ts: rawFeatures = computeRawFeatures(text)
Analyze(t) ==
    \E outcome \in {computeRawFeatures(t, lastIndex)} :
        /\ inputText' = t
        /\ features' = [threw |-> outcome.threw, value |-> outcome.value]
        /\ lastIndex' = outcome.lastIndex

\* a request whose text is the last one with a piece added
AnalyzeLonger(piece) ==
    /\ pieceCount < MaxPieces
    /\ pieceCount' = pieceCount + 1
    /\ Analyze(inputText \o piece)
    /\ firstCall' =
            IF pieceCount = 0
            THEN [text |-> inputText', threw |-> features'.threw, value |-> features'.value]
            ELSE firstCall
    /\ revisited' = FALSE
    /\ UNCHANGED <<scoreVars, levelVars, handlerVars>>

\* a request with the text of the last one; a text of MaxPieces pieces ends
\* the requests of a history
AnalyzeAgain ==
    /\ pieceCount < MaxPieces
    /\ Analyze(inputText)
    /\ UNCHANGED <<pieceCount, firstCall, revisited, scoreVars, levelVars, handlerVars>>

\* a request with the text of the first request that had one, after requests
\* with other texts
AnalyzeFirstAgain ==
    /\ pieceCount > 1
    /\ pieceCount < MaxPieces
    /\ pieceCount' = 1
    /\ Analyze(firstCall.text)
    /\ revisited' = TRUE
    /\ UNCHANGED <<firstCall, scoreVars, levelVars, handlerVars>>

NextFeatures ==
    \/ \E piece \in Vocabulary : AnalyzeLonger(piece)
    \/ AnalyzeAgain
    \/ AnalyzeFirstAgain

SpecFeatures == InitFeatures /\ [][NextFeatures]_vars

----------------------------------------------------------------------------
(* computeRawFeatures applied to texts written word by word *)

\* A text is up to MaxPieces phrases, each word followed by a blank.  The
\* phrases: a sentence of three words with an ego pronoun; three
\* subordinators; a fragment of two words with a subordinator; words with
\* punctuation inside, around or after them.
Phrases ==
    {<<"we", "saw", "it.">>, <<"that", "that", "that">>, <<"if", "so.">>,
     <<"because,", "Me,">>, <<"U.S.">>, <<"I'm">>, <<"if?">>, <<"when!">>, <<"\"that\"">>}

\* the text of the words
RECURSIVE JoinWords(_)
JoinWords(ws) == IF ws = <<>> THEN "" ELSE Head(ws) \o " " \o JoinWords(Tail(ws))

\* a request whose text is the last one with a phrase added
AnalyzePhrase(phrase) ==
    /\ pieceCount < MaxPieces
    /\ pieceCount' = pieceCount + 1
    /\ tokens' = tokens \o phrase
    /\ Analyze(JoinWords(tokens'))
    /\ UNCHANGED <<firstCall, revisited, scoreVars, levelVars, compareVars, historyVars,
                   intelligenceVars, gateVars, processVars, restVars>>

InitTokens == FeaturesIdle /\ ScoreIdle /\ LevelIdle /\ HandlersIdle

NextTokens == \E phrase \in Phrases : AnalyzePhrase(phrase)

SpecTokens == InitTokens /\ [][NextTokens]_vars

\* words with one colon or several, between digits, between letters, after
\* a digit, alone
ColonPhrases == {<<"1:2:3">>, <<"12:30:45">>, <<"at", "3:45:">>, <<"a:b">>, <<":">>}

NextColons == \E phrase \in ColonPhrases : AnalyzePhrase(phrase)

SpecColons == InitTokens /\ [][NextColons]_vars

\* a sentence of three words; three words without an end; an impersonal
\* construction inside a longer one; one in upper case; one that begins
\* like another ("one can"); one after a letter, without a word boundary
ProsePhrases ==
    {<<"we", "saw", "it.">>, <<"that", "that", "that">>,
     <<"it", "is", "to", "be", "noted.">>, <<"It", "IS">>, <<"one", "cannot">>,
     <<"bit", "is">>}

NextProse == \E phrase \in ProsePhrases : AnalyzePhrase(phrase)

SpecProse == InitTokens /\ [][NextProse]_vars

----------------------------------------------------------------------------
(* The scorer applied to bounded inputs *)

\* A scoring field is either at the lower end of its range or k steps of
\* three quarters of the range above it, k in 1..MaxSteps: inside the range,
\* beyond its upper end.
MaxSteps == 2

FieldValue(minVal, maxVal, k) == minVal * 100 + ((maxVal - minVal) * 100 * 3 * k) \div 4

\* egoPronounRate also takes a value below its range and the upper end itself
EgoValues == {FieldValue(0, 80, k) : k \in 0..MaxSteps} \cup {0 - 4000, 8000}

ScoringFields == {"impersonalRate", "subordinationDepth", "semicolonFreq", "dashFreq", "questionFreq"}

\* the fields the formula does not read, in two variants
UnreadFields ==
    {[wordCount |-> 0, avgSentenceLength |-> 0, maxSentenceLength |-> 0, colonFreq |-> 0],
     [wordCount |-> 1000, avgSentenceLength |-> 1000, maxSentenceLength |-> 10, colonFreq |-> 2500]}

\* the RawFeatures value whose fields in raised are k steps up their range
MakeFeatures(u, ego, raised, k) ==
    LET step(name) == IF name \in raised THEN k ELSE 0
    IN  [wordCount |-> u.wordCount,
         egoPronounRate |-> ego,
         avgSentenceLength |-> u.avgSentenceLength,
         maxSentenceLength |-> u.maxSentenceLength,
         subordinationDepth |-> FieldValue(1, 7, step("subordinationDepth")),
         semicolonFreq |-> FieldValue(0, 15, step("semicolonFreq")),
         colonFreq |-> u.colonFreq,
         dashFreq |-> FieldValue(0, 20, step("dashFreq")),
         questionFreq |-> FieldValue(0, 10, step("questionFreq")),
         impersonalRate |-> FieldValue(0, 20, step("impersonalRate"))]

MetaphorArgs == {"none", "low", "moderate", "high", "unknown", "constructor", Absent}
AnecdoteArgs == {"none", "rare", "occasional", "frequent", "unknown", Absent}

InitScore ==
    /\ FeaturesIdle /\ LevelIdle /\ HandlersIdle
    /\ \E u \in UnreadFields, ego \in EgoValues, raised \in SUBSET ScoringFields, k \in 1..MaxSteps :
          rawFeatures = MakeFeatures(u, ego, raised, k)
    /\ metaphorDensity \in MetaphorArgs
    /\ anecdoteFrequency \in AnecdoteArgs
    /\ fpTieUp \in BOOLEAN
    /\ verticalityScore = Pending
    /\ abstraction = NoAbstraction
    /\ prevEgo = NoPrev

\* routes.ts: verticalityScore = computeVerticalityScore(rawFeatures,
\* llmResult.metaphorDensity, llmResult.anecdoteFrequency);
\* abstraction = getAbstractionLevel(verticalityScore)
ScoreText ==
    /\ verticalityScore = Pending
    /\ verticalityScore' =
          computeVerticalityScore(rawFeatures, metaphorDensity, anecdoteFrequency, fpTieUp)
    /\ abstraction' = getAbstractionLevel(verticalityScore')
    /\ UNCHANGED <<rawFeatures, metaphorDensity, anecdoteFrequency, fpTieUp, prevEgo>>
    /\ UNCHANGED <<levelVars, featureVars, handlerVars>>

\* a second call whose features differ from the first call's in egoPronounRate only
ScoreOtherEgo(ego) ==
    /\ verticalityScore # Pending
    /\ prevEgo = NoPrev
    /\ ego # rawFeatures.egoPronounRate
    /\ prevEgo' = [egoPronounRate |-> rawFeatures.egoPronounRate, score |-> verticalityScore]
    /\ rawFeatures' = [rawFeatures EXCEPT !.egoPronounRate = ego]
    /\ verticalityScore' =
          computeVerticalityScore(rawFeatures', metaphorDensity, anecdoteFrequency, fpTieUp)
    /\ abstraction' = getAbstractionLevel(verticalityScore')
    /\ UNCHANGED <<metaphorDensity, anecdoteFrequency, fpTieUp>>
    /\ UNCHANGED <<levelVars, featureVars, handlerVars>>

NextScore ==
    \/ ScoreText
    \/ \E ego \in EgoValues : ScoreOtherEgo(ego)

SpecScore == InitScore /\ [][NextScore]_vars

----------------------------------------------------------------------------
(* getAbstractionLevel applied to bounded inputs *)

\* The scores classified: those within MaxOffset thousandths of a boundary of
\* the table or of an end of [0,1], and NaN.
MaxOffset == 2

Boundaries == {200, 400, 600, 850}

\* the thresholds of getVerticalityClassification
ClassificationBoundaries == {200, 400, 700, 850}

LevelScores ==
    {t + d : t \in Boundaries \cup ClassificationBoundaries \cup {0, 1000},
             d \in (0 - MaxOffset)..MaxOffset} \cup {650, NaN}

InitLevel == FeaturesIdle /\ ScoreIdle /\ LevelIdle /\ HandlersIdle

\* formatSingleTextReport: getVerticalityClassification(verticalityScore) and
\* getAbstractionLevel(verticalityScore) applied to one score
ClassifyScore(score) ==
    /\ classification' = getVerticalityClassification(score)
    /\ prevLevel' = [score |-> levelScore, level |-> levelResult.level,
                     description |-> levelResult.description]
    /\ levelScore' = score
    /\ levelResult' = getAbstractionLevel(score)
    /\ UNCHANGED <<scoreVars, featureVars, handlerVars>>

NextLevel == \E score \in LevelScores : ClassifyScore(score)

SpecLevel == InitLevel /\ [][NextLevel]_vars

----------------------------------------------------------------------------
(* POST /api/stylometrics/compare, several requests in progress *)

\* The texts of the requests; the handler is modelled from the point where
\* both texts have passed its length check.
CompareTexts == {"I; it is so. ", "if: -- we?"}

\* What the LLM's JSON holds for one text: the two enum strings, either of
\* which can be any string or missing, or no entry for the text at all.
NoEntry == <<"no entry">>
TextEntries == {<<"low", "rare">>, <<"constructor", Absent>>, NoEntry}

\* const rawFeaturesA = computeRawFeatures(textA.text);
\* const rawFeaturesB = computeRawFeatures(textB.text);
\* const llmResponse = await callLLM(...): the handler is suspended here.
\* An exception of computeRawFeatures is caught and answered with 500.
CompareReceive(r, tA, tB) ==
    /\ requests[r].pc = "new"
    /\ \E a \in {computeRawFeatures(tA, lastIndex)} :
       \E b \in {IF a.threw = "" THEN computeRawFeatures(tB, a.lastIndex)
                  ELSE [threw |-> "not called", value |-> NoFeatures, lastIndex |-> a.lastIndex]} :
          /\ lastIndex' = b.lastIndex
          /\ requests' =
                [requests EXCEPT ![r] =
                    [@ EXCEPT !.pc = IF b.threw = "" THEN "awaitLLM" ELSE "responded",
                              !.status = IF b.threw = "" THEN 0 ELSE 500,
                              !.textA = tA, !.textB = tB,
                              !.rawFeaturesA = [threw |-> a.threw, value |-> a.value],
                              !.rawFeaturesB = [threw |-> b.threw, value |-> b.value],
                              !.overlapped = \E o \in Requests \ {r} : requests[o].pc = "awaitLLM"]]
    /\ UNCHANGED <<inputText, pieceCount, features, firstCall, revisited, scoreVars, levelVars,
                   historyVars, intelligenceVars, gateVars, processVars,
                   tokenVars, restVars>>

\* if (llmResult.textA) { scoreA = computeVerticalityScore(rawFeaturesA,
\* llmResult.textA.metaphorDensity, llmResult.textA.anecdoteFrequency);
\* absA = getAbstractionLevel(scoreA) }: the score and level of one text
ScoreEntry(rawFeaturesOutcome, entry) ==
    IF entry = NoEntry THEN [score |-> Pending, abs |-> NoAbstraction]
    ELSE LET score == computeVerticalityScore(rawFeaturesOutcome.value, entry[1], entry[2], fpTieUp)
         IN  [score |-> score, abs |-> getAbstractionLevel(score)]

\* the LLM answers; the handler resumes, scores both texts and responds
CompareAnswer(r, entryA, entryB) ==
    /\ requests[r].pc = "awaitLLM"
    /\ \E a \in {ScoreEntry(requests[r].rawFeaturesA, entryA)} :
       \E b \in {ScoreEntry(requests[r].rawFeaturesB, entryB)} :
          requests' =
             [requests EXCEPT ![r] =
                 [@ EXCEPT !.pc = "responded", !.status = 200,
                           !.llmResult = <<entryA, entryB>>,
                           !.scoreA = a.score, !.absA = a.abs,
                           !.scoreB = b.score, !.absB = b.abs]]
    /\ UNCHANGED <<featureVars, scoreVars, levelVars, historyVars, intelligenceVars, gateVars, processVars,
                   tokenVars, restVars>>

\* callLLM rejects: the catch block responds 500
CompareLLMFails(r) ==
    /\ requests[r].pc = "awaitLLM"
    /\ requests' = [requests EXCEPT ![r] = [@ EXCEPT !.pc = "responded", !.status = 500]]
    /\ UNCHANGED <<featureVars, scoreVars, levelVars, historyVars, intelligenceVars, gateVars, processVars,
                   tokenVars, restVars>>

InitCompare == FeaturesIdle /\ ScoreIdle /\ LevelIdle /\ HandlersIdle

NextCompare ==
    \E r \in Requests :
        \/ \E tA \in CompareTexts, tB \in CompareTexts : CompareReceive(r, tA, tB)
        \/ \E entryA \in TextEntries, entryB \in TextEntries : CompareAnswer(r, entryA, entryB)
        \/ CompareLLMFails(r)

SpecCompare == InitCompare /\ [][NextCompare]_vars

----------------------------------------------------------------------------
(* GET /api/history/:id and DELETE /api/history/:id *)

\* the username of the query string: a registered user in several spellings,
\* an unknown name, the empty string, or none
QueryUsernames == {"alice", " Alice ", "bob", "carol", "", Absent}

\* s.trim(): the whitespace at both ends is removed
RECURSIVE trim(_)
trim(s) ==
    IF s = "" THEN ""
    ELSE IF CharAt(s, 1) \in WhitespaceChars THEN trim(SubSeq(s, 2, Len(s)))
    ELSE IF CharAt(s, Len(s)) \in WhitespaceChars THEN trim(SubSeq(s, 1, Len(s) - 1))
    ELSE s

\* username.trim().toLowerCase()
TrimLower(username) == toLowerCase(trim(username))

\* !username || typeof username !== "string"
UsernameMissing(username) == username = Absent \/ username = ""

\* storage.getUserByUsername(name): the id of the row, NoUser when there is none
getUserByUsername(name) == IF name \in DOMAIN UserIds THEN UserIds[name] ELSE NoUser

\* storage.getAnalysisHistoryItem(id): the userId of the row, NoRow when there is none
getAnalysisHistoryItem(rows, id) == IF id \in DOMAIN rows THEN rows[id] ELSE NoRow

\* storage.deleteAnalysisHistoryItem(id)
deleteAnalysisHistoryItem(rows, id) == [rows EXCEPT ![id] = NoRow]

\* mutant of OwnershipDenied: the ownership check is missing
OwnershipNotChecked(itemUserId, userId) == FALSE

\* item.userId !== user.id
OwnershipDenied(itemUserId, userId) == itemUserId # userId

\* the request arrives: 401 without a username, else the handler awaits
\* storage.getUserByUsername
HistoryArrive(r, method, username, id) ==
    /\ historyRequests[r].pc = "new"
    /\ historyRequests' =
          [historyRequests EXCEPT ![r] =
              [@ EXCEPT !.method = method, !.username = username, !.id = id,
                        !.pc = IF UsernameMissing(username) THEN "responded" ELSE "getUser",
                        !.status = IF UsernameMissing(username) THEN 401 ELSE 0]]
    /\ UNCHANGED <<history, deletedBy>>

\* getUserByUsername resolves: 401 for an unknown user, else the handler
\* awaits storage.getAnalysisHistoryItem
HistoryGetUser(r) ==
    /\ historyRequests[r].pc = "getUser"
    /\ LET user == getUserByUsername(TrimLower(historyRequests[r].username))
       IN  historyRequests' =
              [historyRequests EXCEPT ![r] =
                  [@ EXCEPT !.user = user,
                            !.pc = IF user = NoUser THEN "responded" ELSE "getItem",
                            !.status = IF user = NoUser THEN 401 ELSE 0]]
    /\ UNCHANGED <<history, deletedBy>>

\* getAnalysisHistoryItem resolves: 404 without a row, 403 for a row of
\* another user; GET responds with the item, DELETE awaits
\* storage.deleteAnalysisHistoryItem
HistoryGetItem(r) ==
    /\ historyRequests[r].pc = "getItem"
    /\ LET req == historyRequests[r]
           item == getAnalysisHistoryItem(history, req.id)
           seen == [req EXCEPT !.item = item]
       IN  historyRequests' =
              [historyRequests EXCEPT ![r] =
                  IF item = NoRow THEN [seen EXCEPT !.pc = "responded", !.status = 404]
                  ELSE IF OwnershipDenied(item, req.user)
                       THEN [seen EXCEPT !.pc = "responded", !.status = 403]
                  ELSE IF req.method = "GET"
                       THEN [seen EXCEPT !.pc = "responded", !.status = 200, !.body = item]
                  ELSE [seen EXCEPT !.pc = "delete"]]
    /\ UNCHANGED <<history, deletedBy>>

\* deleteAnalysisHistoryItem resolves and the handler responds
HistoryDelete(r) ==
    /\ historyRequests[r].pc = "delete"
    /\ history' = deleteAnalysisHistoryItem(history, historyRequests[r].id)
    /\ deletedBy' =
          IF history[historyRequests[r].id] # NoRow
          THEN [deletedBy EXCEPT ![historyRequests[r].id] = historyRequests[r].user]
          ELSE deletedBy
    /\ historyRequests' =
          [historyRequests EXCEPT ![r] =
              [@ EXCEPT !.pc = "responded", !.status = 200, !.deleted = TRUE]]

InitHistory == FeaturesIdle /\ ScoreIdle /\ LevelIdle /\ HandlersIdle

NextHistory ==
    /\ \E r \in HistoryRequesters :
          \/ \E method \in {"GET", "DELETE"}, username \in QueryUsernames, id \in ItemIds :
                HistoryArrive(r, method, username, id)
          \/ HistoryGetUser(r)
          \/ HistoryGetItem(r)
          \/ HistoryDelete(r)
    /\ UNCHANGED <<featureVars, scoreVars, levelVars, compareVars, intelligenceVars, gateVars, processVars,
                   tokenVars, restVars>>

SpecHistory == InitHistory /\ [][NextHistory]_vars

----------------------------------------------------------------------------
(* POST /api/intelligence and POST /api/intelligence/compare *)

\* Math.round of a quotient: the nearest integer, an exact half going up
MathRound(x) == (2 * x.num + x.den) \div (2 * x.den)

\* wordCount > 0 ? (sharpQuotes.length * 1000) / wordCount : 0
Density(quoteCount, wordCount) ==
    IF wordCount > 0 THEN Ratio(quoteCount * 1000, wordCount) ELSE Ratio(0, 1)

\* the score of /api/intelligence for a density n/d
IntelligenceScore(density) ==
    LET n == density.num
        d == density.den
    IN  IF RatioLe(density, Ratio(1, 1)) THEN MathRound(Ratio(30 * n, d))
        ELSE IF RatioLe(density, Ratio(3, 1)) THEN MathRound(Ratio(30 * 2 * d + 35 * (n - d), 2 * d))
        ELSE IF RatioLe(density, Ratio(6, 1)) THEN MathRound(Ratio(65 * 3 * d + 25 * (n - 3 * d), 3 * d))
        ELSE Min2(100, MathRound(Ratio(90 * 4 * d + 10 * (n - 6 * d), 4 * d)))

\* mutant of calculateScore: the Math.min(100, ...) of the last band is missing
calculateScoreUncapped(density) ==
    LET n == density.num
        d == density.den
    IN  IF RatioLe(density, Ratio(1, 1)) THEN MathRound(Ratio(30 * n, d))
        ELSE IF RatioLe(density, Ratio(3, 1)) THEN MathRound(Ratio(30 * 2 * d + 35 * (n - d), 2 * d))
        ELSE IF RatioLe(density, Ratio(6, 1)) THEN MathRound(Ratio(65 * 3 * d + 25 * (n - 3 * d), 3 * d))
        ELSE MathRound(Ratio(90 * 4 * d + 10 * (n - 6 * d), 4 * d))

\* calculateScore of /api/intelligence/compare
calculateScore(density) ==
    LET n == density.num
        d == density.den
    IN  IF RatioLe(density, Ratio(1, 1)) THEN MathRound(Ratio(30 * n, d))
        ELSE IF RatioLe(density, Ratio(3, 1)) THEN MathRound(Ratio(30 * 2 * d + 35 * (n - d), 2 * d))
        ELSE IF RatioLe(density, Ratio(6, 1)) THEN MathRound(Ratio(65 * 3 * d + 25 * (n - 3 * d), 3 * d))
        ELSE Min2(100, MathRound(Ratio(90 * 4 * d + 10 * (n - 6 * d), 4 * d)))

\* The LLM returns at most MaxQuotes sharp quotes for a text.
MaxQuotes == 3

\* word counts that put the densities on, just below and just above the
\* band limits 1, 3, 6 and the cap 10
WordCounts == {0, 90, 100, 499, 500, 990, 1000, 1001}

\* /api/intelligence responds
IntelligenceRespond(wordCount, quoteCount) ==
    /\ intelligence' =
          [route |-> "single",
           texts |-> <<[wordCount |-> wordCount, quoteCount |-> quoteCount,
                        score |-> IntelligenceScore(Density(quoteCount, wordCount))]>>]
    /\ UNCHANGED <<featureVars, scoreVars, levelVars, compareVars, historyVars, gateVars, processVars,
                   tokenVars, restVars>>

\* /api/intelligence/compare responds
IntelligenceCompareRespond(wordCountA, quotesA, wordCountB, quotesB) ==
    /\ intelligence' =
          [route |-> "compare",
           texts |-> <<[wordCount |-> wordCountA, quoteCount |-> quotesA,
                        score |-> calculateScore(Density(quotesA, wordCountA))],
                       [wordCount |-> wordCountB, quoteCount |-> quotesB,
                        score |-> calculateScore(Density(quotesB, wordCountB))]>>]
    /\ UNCHANGED <<featureVars, scoreVars, levelVars, compareVars, historyVars, gateVars, processVars,
                   tokenVars, restVars>>

InitIntelligence == FeaturesIdle /\ ScoreIdle /\ LevelIdle /\ HandlersIdle

NextIntelligence ==
    \/ \E w \in WordCounts, q \in 0..MaxQuotes : IntelligenceRespond(w, q)
    \/ \E wA \in WordCounts, qA \in 0..MaxQuotes, wB \in WordCounts, qB \in 0..MaxQuotes :
          IntelligenceCompareRespond(wA, qA, wB, qB)

SpecIntelligence == InitIntelligence /\ [][NextIntelligence]_vars

----------------------------------------------------------------------------
(* The length check of the stylometrics endpoints *)

\* the minimum of the three endpoints
MinWords == 400

\* a JSON value that is a number, not a string
NumberValue == "<number>"

\* typeof v === "string"
IsString(v) == v \notin {Absent, NumberValue}

\* !v
Falsy(v) == v \in {Absent, ""}

\* the word repeated n times, a blank after each
RECURSIVE RepeatWord(_, _)
RepeatWord(word, n) ==
    IF n = 0 THEN ""
    ELSE LET half == RepeatWord(word, n \div 2)
         IN  half \o half \o (IF n % 2 = 1 THEN word \o " " ELSE "")

\* the number of words that start in s[lo..hi]: the characters that are no
\* whitespace and follow whitespace or nothing
RECURSIVE WordStarts(_, _, _)
WordStarts(s, lo, hi) ==
    IF lo > hi THEN 0
    ELSE IF lo = hi
         THEN (IF CharAt(s, lo) \notin WhitespaceChars
                  /\ (lo = 1 \/ CharAt(s, lo - 1) \in WhitespaceChars)
               THEN 1 ELSE 0)
    ELSE LET mid == (lo + hi) \div 2
         IN  WordStarts(s, lo, mid) + WordStarts(s, mid + 1, hi)

\* text.split(/\s+/).filter(Boolean).length, a TypeError when text is not a
\* string
SplitWordCount(v) == IF IsString(v) THEN WordStarts(v, 1, Len(v)) ELSE TypeErrorThrown

\* the text values of a request body: none, a number, the empty string, and
\* texts of 1 word and of one word less than, exactly and one word more than
\* MinWords
TextValues ==
    {Absent, NumberValue, "", "word"}
        \cup {RepeatWord("we", n) : n \in {MinWords - 1, MinWords, MinWords + 1}}

AuthorNameValues == {Absent, "Kant"}

Gated(endpoint, texts, authorNames, status, reached) ==
    gate' = [endpoint |-> endpoint, texts |-> texts, authorNames |-> authorNames,
             status |-> status, reached |-> reached]

\* /api/stylometrics/analyze and /api/stylometrics/analyze/stream up to the
\* call of computeRawFeatures: 400 for a missing text, a missing author
\* name or a text of less than MinWords words
AnalyzeGate(endpoint, text, authorName) ==
    /\ GateIdle
    /\ IF Falsy(text) \/ ~IsString(text) THEN Gated(endpoint, <<text>>, <<authorName>>, 400, "")
       ELSE IF Falsy(authorName) \/ ~IsString(authorName)
            THEN Gated(endpoint, <<text>>, <<authorName>>, 400, "")
       ELSE IF SplitWordCount(text) < MinWords
            THEN Gated(endpoint, <<text>>, <<authorName>>, 400, "")
       ELSE Gated(endpoint, <<text>>, <<authorName>>, 0, "computeRawFeatures")
    /\ UNCHANGED <<featureVars, scoreVars, levelVars, compareVars, historyVars, intelligenceVars,
                   processVars,
                   tokenVars, restVars>>

\* /api/stylometrics/compare up to the calls of computeRawFeatures: 400 for
\* a missing text or author name; the word counts are taken without a check
\* that the texts are strings, and the TypeError of a text that is none is
\* caught and answered with 500; 400 when either text is short
CompareGate(textA, authorNameA, textB, authorNameB) ==
    /\ GateIdle
    /\ LET texts == <<textA, textB>>
           authorNames == <<authorNameA, authorNameB>>
       IN  IF Falsy(textA) \/ Falsy(authorNameA) THEN Gated("compare", texts, authorNames, 400, "")
           ELSE IF Falsy(textB) \/ Falsy(authorNameB)
                THEN Gated("compare", texts, authorNames, 400, "")
           ELSE IF SplitWordCount(textA) = TypeErrorThrown \/ SplitWordCount(textB) = TypeErrorThrown
                THEN Gated("compare", texts, authorNames, 500, "")
           ELSE IF SplitWordCount(textA) < MinWords \/ SplitWordCount(textB) < MinWords
                THEN Gated("compare", texts, authorNames, 400, "")
           ELSE Gated("compare", texts, authorNames, 0, "computeRawFeatures")
    /\ UNCHANGED <<featureVars, scoreVars, levelVars, compareVars, historyVars, intelligenceVars,
                   processVars,
                   tokenVars, restVars>>

InitGate == FeaturesIdle /\ ScoreIdle /\ LevelIdle /\ HandlersIdle

NextGate ==
    \/ \E endpoint \in {"analyze", "analyze/stream"}, text \in TextValues,
          authorName \in AuthorNameValues : AnalyzeGate(endpoint, text, authorName)
    \/ \E textA \in TextValues, authorNameA \in AuthorNameValues,
          textB \in TextValues, authorNameB \in AuthorNameValues :
             CompareGate(textA, authorNameA, textB, authorNameB)

SpecGate == InitGate /\ [][NextGate]_vars

----------------------------------------------------------------------------
(* handleProcess: the chunks of a long text, one after the other *)

\* the number of chunks of the text
MaxChunks == 3

\* the number of times handleProcess is called
MaxRuns == 2

\* splitIntoChunks numbers the chunks 1, 2, ... in the order of the text
ChunkIds == 1..MaxChunks

\* what processChunk resolved with when the parsed output is something the
\* display cannot show (null, or no annotatedQuotes for 'context')
MalformedResult == 0

\* chunks.filter(c => c.selected): the selected chunks in the order of the list
RECURSIVE selectedChunks(_, _)
selectedChunks(selected, id) ==
    IF id > MaxChunks THEN <<>>
    ELSE (IF id \in selected THEN <<id>> ELSE <<>>) \o selectedChunks(selected, id + 1)

ChunkRequest(id) == [kind |-> "chunk", id |-> id, chunksCompleted |-> 0, totalChunks |-> 0]

SavePartialRequest(chunksCompleted, totalChunks) ==
    [kind |-> "save-partial", id |-> NoChunk, chunksCompleted |-> chunksCompleted,
     totalChunks |-> totalChunks]

TextRequest == [kind |-> "text", id |-> NoChunk, chunksCompleted |-> 0, totalChunks |-> 0]

\* combineResults(results): the results of the chunks, in their order
combineResults(results) == results

\* buildAccumulatedDisplay(results, ...) reads a field of every result and
\* throws a TypeError for one that has none
DisplayThrows(results) == \E k \in DOMAIN results : results[k] = MalformedResult

\* finally { setIsProcessing(false); ... }
Finally(r) == [r EXCEPT !.pc = "ended", !.isProcessing = FALSE]

\* the statements after the loop, the outer catch when the final display
\* throws, and the finally block
AfterLoop(r) ==
    IF Len(r.results) > 0 /\ r.failedChunkIndex > 0 /\ DisplayThrows(r.results)
    THEN Finally([r EXCEPT !.hasResult = FALSE])
    ELSE Finally(r)

\* one turn of the loop up to the await of processChunk, the statements
\* after the loop when the condition of the loop fails
Loop(r, index) ==
    IF index < Len(r.chunksToProcess)
    THEN [r EXCEPT !.i = index, !.pc = "processChunk",
                   !.sent = Append(@, ChunkRequest(r.chunksToProcess[index + 1]))]
    ELSE AfterLoop(r)

\* catch (chunkError): failedChunkIndex, setLastFailedChunkIndex, break
ChunkErrorContinues(r) ==
    Loop([r EXCEPT !.failedChunkIndex = r.i + 1,
                   !.lastFailedChunkIndex = r.chunksToProcess[r.i + 1]], r.i + 1)

ChunkError(r) ==
    AfterLoop([r EXCEPT !.failedChunkIndex = r.i + 1,
                        !.lastFailedChunkIndex = r.chunksToProcess[r.i + 1]])

\* after the save: the wait between two chunks, none after the last one
AfterSave(r) ==
    IF r.i < Len(r.chunksToProcess) - 1 THEN [r EXCEPT !.pc = "waiting"] ELSE Loop(r, r.i + 1)

\* if (username) { await fetch('/api/history/save-partial', ...) }
SaveImmediately(r) ==
    IF r.username \notin {Absent, ""}
    THEN [r EXCEPT !.pc = "save-partial",
                   !.sent = Append(@, SavePartialRequest(Len(r.results), Len(r.chunksToProcess)))]
    ELSE AfterSave(r)

\* handleProcess is called: nothing happens for a text that is blank; the
\* state is reset; the first chunk is sent when the text needs chunking and
\* chunks are selected, the whole text otherwise
HandleProcess(blank, needsChunking, selected, username) ==
    /\ ~run.isProcessing
    /\ run.runs < MaxRuns
    /\ run' = IF blank THEN [run EXCEPT !.runs = @ + 1]
              ELSE LET started == [run EXCEPT !.runs = @ + 1, !.username = username,
                                              !.isProcessing = TRUE, !.hasResult = TRUE,
                                              !.chunkResults = <<>>,
                                              !.lastFailedChunkIndex = NoChunk,
                                              !.chunksToProcess = <<>>, !.i = 0,
                                              !.results = <<>>, !.failedChunkIndex = 0 - 1,
                                              !.sent = <<>>]
                   IN  IF needsChunking /\ Len(selectedChunks(selected, 1)) > 0
                       THEN Loop([started EXCEPT
                                     !.chunksToProcess = selectedChunks(selected, 1)], 0)
                       ELSE [started EXCEPT !.pc = "streaming", !.sent = <<TextRequest>>]
    /\ UNCHANGED <<partials, featureVars, scoreVars, levelVars, compareVars, historyVars,
                   intelligenceVars, gateVars, tokenVars, restVars>>

\* processChunk resolves: the result is pushed and shown, the combined
\* result is set and, when a user is logged in, sent to save-partial; a
\* result that the display cannot show lands in the catch of the chunk
ChunkResolves(malformed) ==
    /\ run.pc = "processChunk"
    /\ LET chunkResult == IF malformed THEN MalformedResult ELSE run.chunksToProcess[run.i + 1]
           pushed == [run EXCEPT !.results = Append(@, chunkResult),
                                 !.chunkResults = Append(run.results, chunkResult)]
       IN  run' = IF DisplayThrows(pushed.results) THEN ChunkError(pushed)
                  ELSE SaveImmediately([pushed EXCEPT !.result = combineResults(pushed.results)])
    /\ UNCHANGED <<partials, featureVars, scoreVars, levelVars, compareVars, historyVars,
                   intelligenceVars, gateVars, tokenVars, restVars>>

\* processChunk rejects
ChunkRejects ==
    /\ run.pc = "processChunk"
    /\ run' = ChunkError(run)
    /\ UNCHANGED <<partials, featureVars, scoreVars, levelVars, compareVars, historyVars,
                   intelligenceVars, gateVars, tokenVars, restVars>>

\* POST /api/history/save-partial creates a row with the progress and
\* answers; or the fetch fails, which the client only logs
SavePartialReturns(saved) ==
    /\ run.pc = "save-partial"
    /\ partials' = IF saved
                   THEN LET request == run.sent[Len(run.sent)]
                        IN  Append(partials,
                                   [completed |-> request.chunksCompleted,
                                    total |-> request.totalChunks,
                                    partial |-> request.chunksCompleted < request.totalChunks])
                   ELSE partials
    /\ run' = AfterSave(run)
    /\ UNCHANGED <<featureVars, scoreVars, levelVars, compareVars, historyVars,
                   intelligenceVars, gateVars, tokenVars, restVars>>

\* the 20 seconds between two chunks are over
WaitOver ==
    /\ run.pc = "waiting"
    /\ run' = Loop(run, run.i + 1)
    /\ UNCHANGED <<partials, featureVars, scoreVars, levelVars, compareVars, historyVars,
                   intelligenceVars, gateVars, tokenVars, restVars>>

\* analyzeTextStreaming of the whole text ends: the parsed result is set, or
\* it rejects and the outer catch hides the result
StreamingEnds(rejected) ==
    /\ run.pc = "streaming"
    /\ run' = IF rejected THEN Finally([run EXCEPT !.hasResult = FALSE])
              ELSE Finally([run EXCEPT !.result = <<NoChunk>>])
    /\ UNCHANGED <<partials, featureVars, scoreVars, levelVars, compareVars, historyVars,
                   intelligenceVars, gateVars, tokenVars, restVars>>

ProcessUsernames == {Absent, "alice"}

InitProcess == FeaturesIdle /\ ScoreIdle /\ LevelIdle /\ HandlersIdle

NextProcess ==
    \/ \E blank \in BOOLEAN, needsChunking \in BOOLEAN, selected \in SUBSET ChunkIds,
          username \in ProcessUsernames : HandleProcess(blank, needsChunking, selected, username)
    \/ \E malformed \in BOOLEAN : ChunkResolves(malformed)
    \/ ChunkRejects
    \/ \E saved \in BOOLEAN : SavePartialReturns(saved)
    \/ WaitOver
    \/ \E rejected \in BOOLEAN : StreamingEnds(rejected)

SpecProcess == InitProcess /\ [][NextProcess]_vars

----------------------------------------------------------------------------
(* POST /api/analyze and its history-saving step *)

\* a field of the request body that passes `!v || typeof v !== "string"`
ValidField(v) == ~Falsy(v) /\ IsString(v)

\* mutant of SavesHistory: the length is taken before trimming
SavesHistoryUntrimmed(username) ==
    ~Falsy(username) /\ IsString(username) /\ Len(username) >= 2

\* the condition under which the handler saves to the history
SavesHistory(username) ==
    ~Falsy(username) /\ IsString(username) /\ Len(trim(username)) >= 2

\* res.status(status).json(body): the request is answered
AnalyzeResponds(status, body) ==
    analysis' = [analysis EXCEPT !.pc = "done", !.status = status, !.body = body]

\* the handler awaits a call of storage
AwaitStorage(fn, arg) ==
    analysis' = [analysis EXCEPT !.pc = fn,
                                 !.calls = Append(@, [fn |-> fn, arg |-> arg])]

\* the request arrives; the three fields are validated, analyzeText is called
AnalyzeRequest(text, provider, functionType, username) ==
    /\ AnalysisIdle
    /\ IF ~ValidField(text) \/ ~ValidField(provider) \/ ~ValidField(functionType)
         THEN analysis' = [analysis EXCEPT !.pc = "done", !.status = 400, !.body = "error",
                                           !.username = username,
                                           !.fields = <<text, provider, functionType>>]
         ELSE analysis' = [analysis EXCEPT !.pc = "analyzeText", !.username = username,
                                           !.fields = <<text, provider, functionType>>]
    /\ UNCHANGED <<olderVars, chunkVars, replyVars, authorVars>>

\* analyzeText resolves: the history is saved when a user is logged in
AnalyzeTextResolves ==
    /\ analysis.pc = "analyzeText"
    /\ IF SavesHistory(analysis.username)
         THEN analysis' = [analysis EXCEPT
                  !.pc = "getUserByUsername", !.resolved = TRUE,
                  !.calls = Append(@, [fn |-> "getUserByUsername",
                                       arg |-> toLowerCase(trim(analysis.username))])]
         ELSE analysis' = [analysis EXCEPT !.pc = "done", !.resolved = TRUE,
                                           !.status = 200, !.body = "result"]
    /\ UNCHANGED <<olderVars, chunkVars, replyVars, authorVars>>

\* analyzeText rejects: the outer catch answers 500
AnalyzeTextRejects ==
    /\ analysis.pc = "analyzeText"
    /\ AnalyzeResponds(500, "error")
    /\ UNCHANGED <<olderVars, chunkVars, replyVars, authorVars>>

\* getUserByUsername returns a user or undefined
GetUserByUsernameReturns(found) ==
    /\ analysis.pc = "getUserByUsername"
    /\ IF found
         THEN AwaitStorage("createAnalysisHistory", analysis.fields[3])
         ELSE AwaitStorage("createUser", toLowerCase(trim(analysis.username)))
    /\ UNCHANGED <<olderVars, chunkVars, replyVars, authorVars>>

CreateUserReturns ==
    /\ analysis.pc = "createUser"
    /\ AwaitStorage("createAnalysisHistory", analysis.fields[3])
    /\ UNCHANGED <<olderVars, chunkVars, replyVars, authorVars>>

CreateAnalysisHistoryReturns ==
    /\ analysis.pc = "createAnalysisHistory"
    /\ AnalyzeResponds(200, "result")
    /\ UNCHANGED <<olderVars, chunkVars, replyVars, authorVars>>

\* a call of storage rejects: the inner catch logs it and the result is sent
StorageThrows ==
    /\ analysis.pc \in {"getUserByUsername", "createUser", "createAnalysisHistory"}
    /\ analysis' = [analysis EXCEPT !.pc = "done", !.threw = TRUE,
                                    !.status = 200, !.body = "result"]
    /\ UNCHANGED <<olderVars, chunkVars, replyVars, authorVars>>

RequestFields == {Absent, NumberValue, "", "quotes"}

RequestUsernames == {Absent, NumberValue, "", "a", " a ", "ab", " Bob "}

InitAnalysis == FeaturesIdle /\ ScoreIdle /\ LevelIdle /\ HandlersIdle

NextAnalysis ==
    \/ \E text \in RequestFields, provider \in {Absent, "openai"},
          functionType \in {"", "quotes"}, username \in RequestUsernames :
          AnalyzeRequest(text, provider, functionType, username)
    \/ AnalyzeTextResolves
    \/ AnalyzeTextRejects
    \/ \E found \in BOOLEAN : GetUserByUsernameReturns(found)
    \/ CreateUserReturns
    \/ CreateAnalysisHistoryReturns
    \/ StorageThrows

SpecAnalysis == InitAnalysis /\ [][NextAnalysis]_vars

----------------------------------------------------------------------------
(* Claims about the history-saving step of /api/analyze *)

\* the username of the request is absent, not a string, or has fewer than
\* two characters between its leading and trailing blanks
NotLoggedIn ==
    \/ analysis.username \in {Absent, NumberValue}
    \/ Cardinality({i \in 1..Len(analysis.username) :
                      \E j \in 1..i, k \in i..Len(analysis.username) :
                         /\ CharAt(analysis.username, j) # " "
                         /\ CharAt(analysis.username, k) # " "}) < 2

\* C23: when analyzeText has succeeded the response of /api/analyze is the
\* analysis result with a success status, also when a storage call of the
\* history-saving step has thrown; and no storage call is made when the
\* username is absent, not a string, or shorter than 2 characters trimmed.
C23_HistoryNeverFailsAnalysis ==
    /\ (analysis.pc = "done" /\ analysis.resolved) =>
           analysis.status = 200 /\ analysis.body = "result"
    /\ NotLoggedIn => analysis.calls = <<>>

\* createAnalysisHistory threw for a logged-in user and the result was sent
C23_Witness ==
    /\ analysis.pc = "done"
    /\ analysis.resolved
    /\ analysis.threw
    /\ analysis.username = " Bob "
    /\ Len(analysis.calls) = 3
    /\ analysis.calls[1] = [fn |-> "getUserByUsername", arg |-> "bob"]
    /\ analysis.calls[3].fn = "createAnalysisHistory"
    /\ analysis.status = 200
    /\ analysis.body = "result"

----------------------------------------------------------------------------
(* splitIntoChunks *)

CHUNK_SIZE == 1000

\* A long text is held by its words, which are numbers from 1 on, and by
\* whether white space comes before the first and after the last of them.
\* The empty string, as a piece of a split, is 0.
EmptyString == 0

LongText(n, lead, trail) == [words |-> [i \in 1..n |-> i], lead |-> lead, trail |-> trail]

\* text.split(/\s+/): the words, and an empty string before leading and after
\* trailing white space; the empty text splits into one empty string
SplitWhitespace(text) ==
    IF text.words = <<>> /\ ~text.lead /\ ~text.trail
      THEN <<EmptyString>>
      ELSE (IF text.lead \/ (text.words = <<>> /\ text.trail) THEN <<EmptyString>> ELSE <<>>)
           \o text.words
           \o (IF text.trail \/ (text.words = <<>> /\ text.lead) THEN <<EmptyString>> ELSE <<>>)

\* mutant of FilterWords: the empty strings are kept
FilterNothing(pieces) == pieces

\* .filter(Boolean): the empty strings are dropped
FilterWords(pieces) == SelectSeq(pieces, LAMBDA piece : piece # EmptyString)

\* words.slice(from, to), from and to counted from 0
Slice(words, from, to) == SubSeq(words, from + 1, IF to < Len(words) THEN to ELSE Len(words))

\* chunkWords.join(' '): one blank between the words, none around them
JoinBlank(chunkWords) == [words |-> chunkWords, lead |-> FALSE, trail |-> FALSE]

RECURSIVE ChunkLoop(_, _, _)
\* the for loop of splitIntoChunks
ChunkLoop(words, i, chunks) ==
    IF i < Len(words)
      THEN LET chunkWords == Slice(words, i, i + CHUNK_SIZE)
           IN ChunkLoop(words, i + CHUNK_SIZE,
                        Append(chunks,
                               [id |-> Len(chunks) + 1,
                                text |-> JoinBlank(chunkWords),
                                wordCount |-> Len(chunkWords),
                                startWord |-> i + 1,
                                endWord |-> IF i + CHUNK_SIZE < Len(words)
                                              THEN i + CHUNK_SIZE ELSE Len(words),
                                selected |-> TRUE]))
      ELSE chunks

splitIntoChunks(text) == ChunkLoop(FilterWords(SplitWhitespace(text)), 0, <<>>)

\* splitIntoChunks is called with a text
SplitIntoChunks(text) ==
    /\ ChunksIdle
    /\ chunked' = [text |-> text, chunks |-> splitIntoChunks(text), called |-> TRUE]
    /\ UNCHANGED <<olderVars, analysisVars, replyVars, authorVars>>

\* how far from a multiple of CHUNK_SIZE the word counts go
MaxSpread == 4

\* the word counts of the texts: around each multiple of CHUNK_SIZE
ChunkedWordCounts ==
    {n \in 0..(MaxChunks * CHUNK_SIZE + MaxSpread) :
        \E k \in 0..MaxChunks : n - k * CHUNK_SIZE \in (0 - MaxSpread)..MaxSpread}

InitChunks == FeaturesIdle /\ ScoreIdle /\ LevelIdle /\ HandlersIdle

NextChunks ==
    \E n \in ChunkedWordCounts, lead \in BOOLEAN, trail \in BOOLEAN :
        SplitIntoChunks(LongText(n, lead, trail))

SpecChunks == InitChunks /\ [][NextChunks]_vars

----------------------------------------------------------------------------
(* Claims about splitIntoChunks *)

RECURSIVE ChunkWordsFrom(_, _)
\* the words of the chunks from the k-th on, one chunk after the other
ChunkWordsFrom(chunks, k) ==
    IF k > Len(chunks) THEN <<>>
    ELSE chunks[k].text.words \o ChunkWordsFrom(chunks, k + 1)

RECURSIVE ChunkWordCountFrom(_, _)
ChunkWordCountFrom(chunks, k) ==
    IF k > Len(chunks) THEN 0 ELSE chunks[k].wordCount + ChunkWordCountFrom(chunks, k + 1)

\* C24: the chunks of splitIntoChunks partition the word sequence of the text:
\* every chunk but the last has exactly 1000 words and the last between 1 and
\* 1000, the ids are 1..n, chunk k starts at word 1000*(k-1)+1 and ends at
\* startWord + wordCount - 1, the word counts add up to the word count of the
\* text, and a text without words gives no chunk.
C24_ChunksPartitionWords ==
    chunked.called =>
        LET words == chunked.text.words
            chunks == chunked.chunks
        IN /\ ChunkWordsFrom(chunks, 1) = words
           /\ ChunkWordCountFrom(chunks, 1) = Len(words)
           /\ words = <<>> => chunks = <<>>
           /\ \A k \in 1..Len(chunks) :
                 /\ chunks[k].id = k
                 /\ chunks[k].wordCount = Len(chunks[k].text.words)
                 /\ ~chunks[k].text.lead /\ ~chunks[k].text.trail
                 /\ k < Len(chunks) => chunks[k].wordCount = 1000
                 /\ k = Len(chunks) => chunks[k].wordCount \in 1..1000
                 /\ chunks[k].startWord = 1000 * (k - 1) + 1
                 /\ chunks[k].endWord = chunks[k].startWord + chunks[k].wordCount - 1

\* 2001 words between white space: two full chunks and a last one of one word
C24_Witness ==
    /\ chunked.called
    /\ Len(chunked.text.words) = 2001
    /\ chunked.text.lead /\ chunked.text.trail
    /\ Len(chunked.chunks) = 3
    /\ chunked.chunks[2].wordCount = 1000
    /\ chunked.chunks[3].wordCount = 1
    /\ chunked.chunks[3].startWord = 2001
    /\ chunked.chunks[3].endWord = 2001


----------------------------------------------------------------------------
(* POST /api/stylometrics/analyze and /analyze/stream, after the length check *)

\* null in a JSON text
JsonNull == 0 - 10^9 - 3

\* obj.key on an object that JSON.parse returned: undefined when it has no
\* such key
JsonGet(obj, key) == IF key \in DOMAIN obj THEN obj[key] ELSE Absent

\* obj.key = value
JsonSet(obj, key, value) ==
    [k \in DOMAIN obj \cup {key} |-> IF k = key THEN value ELSE obj[k]]

\* { ...first, ...second }: a property of second replaces the one of first
Spread(first, second) ==
    [k \in DOMAIN first \cup DOMAIN second |-> IF k \in DOMAIN second THEN second[k] ELSE first[k]]

\* the properties that hold numbers, and the one that holds an object
NumberKeys == {"verticalityScore", "wordCount"}

\* JSON.stringify and the client's JSON.parse: a property that is undefined
\* is left out, a number that is NaN arrives as null
JsonStringify(data) ==
    [k \in {key \in DOMAIN data :
               key \in NumberKeys \cup {"rawFeatures"} \/ data[key] # Absent} |->
        IF k \in NumberKeys /\ data[k] = NaN THEN JsonNull ELSE data[k]]

\* what callLLM resolved with: whether /\{[\s\S]*\}/ matches and JSON.parse
\* accepts the match, and the object parsed
NoJson == [json |-> FALSE, value |-> <<>>]

\* the llmResult of the catch block
FallbackResult ==
    [metaphorDensity |-> "moderate", anecdoteFrequency |-> "occasional",
     signaturePhrases |-> "[]", negativeMarkers |-> "[]", sampleSentences |-> "[]",
     psychologicalProfile |-> "{}", narrativeSummary |-> "Analysis could not be completed.",
     clustering |-> "{ veryCloseTo: [], moderatelyCloseTo: [], farFrom: [] }"]

ParseLLM(llmResponse) == IF llmResponse.json THEN llmResponse.value ELSE FallbackResult

\* (llmResult.signaturePhrases || []).map(...) of formatSingleTextReport
\* throws when the property is a string
FormatThrows(llmResult) == JsonGet(llmResult, "signaturePhrases") = "not an array"

\* the properties of llmResult that the 'complete' event copies
StreamedKeys ==
    {"metaphorDensity", "anecdoteFrequency", "signaturePhrases", "negativeMarkers",
     "sampleSentences", "closestAuthorMatch", "matchExplanation", "psychologicalProfile",
     "narrativeSummary", "clustering"}

\* the data of the response of /api/stylometrics/analyze
AnalyzeData(r, verticality, abstractionOf, llmResult) ==
    Spread([authorName |-> r.authorName, sourceTitle |-> r.sourceTitle,
            wordCount |-> r.rawFeatures.value.wordCount, verticalityScore |-> verticality,
            abstractionLevel |-> abstractionOf.level, rawFeatures |-> r.rawFeatures.value],
           llmResult)

\* the data of the 'complete' event of /api/stylometrics/analyze/stream
StreamData(r, verticality, abstractionOf, llmResult) ==
    Spread([authorName |-> r.authorName, sourceTitle |-> r.sourceTitle,
            wordCount |-> r.rawFeatures.value.wordCount, verticalityScore |-> verticality,
            abstractionLevel |-> abstractionOf.level,
            abstractionDescription |-> abstractionOf.description,
            rawFeatures |-> r.rawFeatures.value],
           [k \in StreamedKeys |-> JsonGet(llmResult, k)])

\* the request has passed the checks; computeRawFeatures, then await callLLM
ReplyReceive(endpoint, authorName, sourceTitle, text) ==
    /\ ReplyIdle
    /\ \E f \in {computeRawFeatures(text, lastIndex)} :
          /\ lastIndex' = f.lastIndex
          /\ reply' = [pc |-> IF f.threw = "" THEN "awaitLLM" ELSE "responded",
                       endpoint |-> endpoint, authorName |-> authorName,
                       sourceTitle |-> sourceTitle, text |-> text, lastIndexBefore |-> lastIndex,
                       rawFeatures |-> [threw |-> f.threw, value |-> f.value],
                       llmResponse |-> NoJson, ok |-> FALSE, data |-> <<>>]
    /\ UNCHANGED <<inputText, pieceCount, features, firstCall, revisited, scoreVars, levelVars,
                   compareVars, historyVars, intelligenceVars, gateVars, processVars, tokenVars,
                   analysisVars, chunkVars, authorVars>>

\* callLLM resolves: the JSON is parsed, the score and the level are computed
\* and written over those of the LLM, the report is formatted, the data sent
ReplyAnswer(llmResponse) ==
    /\ reply.pc = "awaitLLM"
    /\ LET parsed == ParseLLM(llmResponse)
           verticality == computeVerticalityScore(reply.rawFeatures.value,
                                                  JsonGet(parsed, "metaphorDensity"),
                                                  JsonGet(parsed, "anecdoteFrequency"), fpTieUp)
           abstractionOf == getAbstractionLevel(verticality)
           llmResult ==
               JsonSet(JsonSet(JsonSet(parsed, "verticalityScore", verticality),
                               "abstractionLevel", abstractionOf.level),
                       "abstractionDescription", abstractionOf.description)
       IN  reply' =
             IF FormatThrows(llmResult)
               THEN [reply EXCEPT !.pc = "responded", !.llmResponse = llmResponse]
               ELSE [reply EXCEPT
                       !.pc = "responded", !.llmResponse = llmResponse, !.ok = TRUE,
                       !.data = JsonStringify(
                                   IF reply.endpoint = "analyze"
                                     THEN AnalyzeData(reply, verticality, abstractionOf, llmResult)
                                     ELSE StreamData(reply, verticality, abstractionOf, llmResult))]
    /\ UNCHANGED <<olderVars, analysisVars, chunkVars, authorVars>>

\* callLLM rejects: 500, or the 'error' event
ReplyLLMFails ==
    /\ reply.pc = "awaitLLM"
    /\ reply' = [reply EXCEPT !.pc = "responded"]
    /\ UNCHANGED <<olderVars, analysisVars, chunkVars, authorVars>>

\* The texts stand for texts that have passed the length check.
ReplyTexts == {"I; it is so. ", "if: -- we?"}

\* What the LLM can answer: no JSON, the two enums alone, its own score and
\* level, an enum that is a property of every object, keys named as the
\* locally computed fields, an empty object, a list that is no list.
LLMResponses ==
    {NoJson,
     [json |-> TRUE, value |-> [metaphorDensity |-> "high", anecdoteFrequency |-> "none"]],
     [json |-> TRUE,
      value |-> [metaphorDensity |-> "low", anecdoteFrequency |-> "rare",
                 verticalityScore |-> 990, abstractionLevel |-> "Extreme Abstraction",
                 abstractionDescription |-> "as the LLM has it"]],
     [json |-> TRUE, value |-> [metaphorDensity |-> "constructor"]],
     [json |-> TRUE,
      value |-> [metaphorDensity |-> "none", anecdoteFrequency |-> "frequent",
                 wordCount |-> 7, authorName |-> "Plato", rawFeatures |-> NoFeatures]],
     [json |-> TRUE, value |-> <<>>],
     [json |-> TRUE, value |-> [metaphorDensity |-> "high", signaturePhrases |-> "not an array"]]}

InitReply == FeaturesIdle /\ ScoreIdle /\ LevelIdle /\ HandlersIdle

NextReply ==
    \/ \E endpoint \in {"analyze", "stream"}, authorName \in {"Kant", "Hume"},
          sourceTitle \in {Absent, "Essays"}, text \in ReplyTexts :
          ReplyReceive(endpoint, authorName, sourceTitle, text)
    \/ \E llmResponse \in LLMResponses : ReplyAnswer(llmResponse)
    \/ ReplyLLMFails

SpecReply == InitReply /\ [][NextReply]_vars

----------------------------------------------------------------------------
(* Claims about the data of a stylometrics analysis *)

\* a successful response, or a 'complete' event, has been sent
RepliedWell == reply.pc = "responded" /\ reply.ok

\* computeVerticalityScore(computeRawFeatures(text), metaphorDensity,
\* anecdoteFrequency), the two taken from the LLM's JSON
LocalScore ==
    computeVerticalityScore(
        computeRawFeatures(reply.text, reply.lastIndexBefore).value,
        IF reply.llmResponse.json THEN JsonGet(reply.llmResponse.value, "metaphorDensity")
                                  ELSE "moderate",
        IF reply.llmResponse.json THEN JsonGet(reply.llmResponse.value, "anecdoteFrequency")
                                  ELSE "occasional",
        fpTieUp)

\* C25: in every successful response of /api/stylometrics/analyze and in every
\* 'complete' event of /analyze/stream, verticalityScore is
\* computeVerticalityScore of the local features and the LLM's two enums,
\* abstractionLevel is the level of getAbstractionLevel for that score,
\* whatever the LLM returned for them; without parseable JSON the score is
\* the one for moderate and occasional.
C25_ScoreIsLocal ==
    RepliedWell =>
        /\ reply.data.verticalityScore = LocalScore
        /\ reply.data.abstractionLevel = getAbstractionLevel(LocalScore).level

\* the part of C25 that holds: when the local score is a number, it and its
\* level are what the client receives
C25_HoldsForNumbers ==
    (RepliedWell /\ LocalScore # NaN) => C25_ScoreIsLocal

\* C26: data.rawFeatures, data.wordCount and data.authorName are the locally
\* computed features, their word count and the requested author name; no
\* field of the LLM's JSON replaces them.
C26_LocalFieldsKept ==
    RepliedWell =>
        LET f == computeRawFeatures(reply.text, reply.lastIndexBefore).value
        IN  /\ reply.data.rawFeatures = f
            /\ reply.data.wordCount = f.wordCount
            /\ reply.data.authorName = reply.authorName

\* the part of C26 that holds: the 'complete' event of the stream, and every
\* response to an LLM answer without keys of those names
C26_HoldsWithoutSuchKeys ==
    (RepliedWell /\ (reply.endpoint = "stream"
                     \/ DOMAIN reply.llmResponse.value \cap
                           {"rawFeatures", "wordCount", "authorName"} = {}))
        => C26_LocalFieldsKept

----------------------------------------------------------------------------
(* The author profiles: POST /api/stylometrics/save, GET /authors, /export, *)
(* GET and DELETE /api/stylometrics/author/:id, several requests in progress *)

AuthorRequesters == {1, 2}

NoProfile == 0

NewAuthorRequest ==
    [pc |-> "new", kind |-> "", username |-> Absent, authorName |-> Absent, id |-> NoProfile,
     user |-> NoUser, existing |-> NoProfile, status |-> 0, body |-> {}, afterSave |-> NoProfile]

\* storage.getUserByUsername(username) on the rows of users: the id of the
\* row with that username, NoUser when there is none
getUserRow(rows, username) ==
    IF \E i \in 1..Len(rows) : rows[i] = username
      THEN CHOOSE i \in 1..Len(rows) : rows[i] = username
      ELSE NoUser

\* storage.getStylometricAuthorByName(userId, authorName): a row of the user
\* with that author name, NoProfile when there is none
getStylometricAuthorByName(rows, userId, authorName) ==
    LET found == {i \in 1..Len(rows) :
                     rows[i].live /\ rows[i].userId = userId /\ rows[i].authorName = authorName}
    IN  IF found = {} THEN NoProfile ELSE CHOOSE i \in found : \A j \in found : i <= j

\* storage.getStylometricAuthors(userId): the rows of the user
getStylometricAuthors(rows, userId) ==
    {i \in 1..Len(rows) : rows[i].live /\ rows[i].userId = userId}

\* storage.getStylometricAuthor(id)
getStylometricAuthor(rows, id) ==
    IF id \in 1..Len(rows) /\ rows[id].live THEN id ELSE NoProfile

\* storage.updateStylometricAuthor(id, authorData)
updateStylometricAuthor(rows, id, userId, authorName) ==
    IF id \in 1..Len(rows) /\ rows[id].live
      THEN [rows EXCEPT ![id] = [@ EXCEPT !.userId = userId, !.authorName = authorName]]
      ELSE rows

\* storage.createStylometricAuthor(authorData): the table has no unique
\* constraint besides its serial id
createStylometricAuthor(rows, userId, authorName) ==
    Append(rows, [userId |-> userId, authorName |-> authorName, live |-> TRUE,
                  deletedFor |-> Absent])

\* storage.deleteStylometricAuthor(id), with the username the request was
\* made for written to the row
deleteStylometricAuthor(rows, id, username) ==
    IF id \in 1..Len(rows) /\ rows[id].live
      THEN [rows EXCEPT ![id] = [@ EXCEPT !.live = FALSE, !.deletedFor = username]]
      ELSE rows

AuthorResponds(r, status, body) ==
    authorRequests' =
        [authorRequests EXCEPT ![r] = [@ EXCEPT !.pc = "responded", !.status = status,
                                                !.body = body]]

\* the profile a save with this username string has stored, when that save
\* has been answered before this request arrives
SavedBefore(username) ==
    IF \E o \in AuthorRequesters :
           /\ authorRequests[o].kind = "save" /\ authorRequests[o].pc = "responded"
           /\ authorRequests[o].status = 200 /\ authorRequests[o].username = username
      THEN authorRequests[CHOOSE o \in AuthorRequesters :
                             /\ authorRequests[o].kind = "save"
                             /\ authorRequests[o].pc = "responded"
                             /\ authorRequests[o].status = 200
                             /\ authorRequests[o].username = username].existing
      ELSE NoProfile

\* POST /api/stylometrics/save up to its first await
SaveArrive(r, username, authorName) ==
    /\ authorRequests[r].pc = "new"
    /\ LET status == IF Falsy(username) \/ ~IsString(username) \/ Len(trim(username)) < 2
                       THEN 401
                     ELSE IF Falsy(authorName) \/ ~IsString(authorName)
                             \/ Len(trim(authorName)) = 0
                       THEN 400
                     ELSE 0
       IN  authorRequests' =
             [authorRequests EXCEPT ![r] =
                 [@ EXCEPT !.pc = IF status = 0 THEN "getUser" ELSE "responded",
                           !.kind = "save", !.username = username, !.authorName = authorName,
                           !.status = status]]
    /\ UNCHANGED <<users, profiles, olderVars, analysisVars, chunkVars, replyVars>>

\* GET /api/stylometrics/authors and /export up to their first await
ListArrive(r, kind, username) ==
    /\ authorRequests[r].pc = "new"
    /\ LET status == IF Falsy(username) \/ ~IsString(username) THEN 400 ELSE 0
       IN  authorRequests' =
             [authorRequests EXCEPT ![r] =
                 [@ EXCEPT !.pc = IF status = 0 THEN "getUser" ELSE "responded",
                           !.kind = kind, !.username = username, !.status = status,
                           !.afterSave = IF status = 0 THEN SavedBefore(username)
                                         ELSE NoProfile]]
    /\ UNCHANGED <<users, profiles, olderVars, analysisVars, chunkVars, replyVars>>

\* GET and DELETE /api/stylometrics/author/:id up to their await; username
\* is the user the request is made for, which the handlers do not read
ByIdArrive(r, kind, id, username) ==
    /\ authorRequests[r].pc = "new"
    /\ authorRequests' =
          [authorRequests EXCEPT ![r] =
              [@ EXCEPT !.pc = kind, !.kind = kind, !.id = id, !.username = username]]
    /\ UNCHANGED <<users, profiles, olderVars, analysisVars, chunkVars, replyVars>>

\* await storage.getUserByUsername(...): save looks up the trimmed,
\* lower-cased username, /authors and /export the username as it came
AuthorGetUser(r) ==
    /\ authorRequests[r].pc = "getUser"
    /\ LET req == authorRequests[r]
           user == getUserRow(users, IF req.kind = "save" THEN toLowerCase(trim(req.username))
                                     ELSE req.username)
       IN  authorRequests' =
             [authorRequests EXCEPT ![r] =
                 IF req.kind = "save"
                   THEN [@ EXCEPT !.user = user,
                                  !.pc = IF user = NoUser THEN "createUser" ELSE "getByName"]
                 ELSE IF user = NoUser
                   THEN [@ EXCEPT !.pc = "responded", !.status = 200, !.body = {}]
                 ELSE [@ EXCEPT !.user = user, !.pc = "getAuthors"]]
    /\ UNCHANGED <<users, profiles, olderVars, analysisVars, chunkVars, replyVars>>

\* await storage.createUser(...): the username is unique, a second row with
\* it is refused and the catch answers 500
AuthorCreateUser(r) ==
    /\ authorRequests[r].pc = "createUser"
    /\ LET cleanUsername == toLowerCase(trim(authorRequests[r].username))
       IN  IF getUserRow(users, cleanUsername) # NoUser
             THEN AuthorResponds(r, 500, {}) /\ UNCHANGED users
             ELSE /\ users' = Append(users, cleanUsername)
                  /\ authorRequests' =
                        [authorRequests EXCEPT ![r] =
                            [@ EXCEPT !.user = Len(users) + 1, !.pc = "getByName"]]
    /\ UNCHANGED <<profiles, olderVars, analysisVars, chunkVars, replyVars>>

\* await storage.getStylometricAuthorByName(user.id, authorName.trim())
AuthorGetByName(r) ==
    /\ authorRequests[r].pc = "getByName"
    /\ authorRequests' =
          [authorRequests EXCEPT ![r] =
              [@ EXCEPT !.pc = "write",
                        !.existing = getStylometricAuthorByName(
                                         profiles, authorRequests[r].user,
                                         trim(authorRequests[r].authorName))]]
    /\ UNCHANGED <<users, profiles, olderVars, analysisVars, chunkVars, replyVars>>

\* await storage.updateStylometricAuthor / createStylometricAuthor with
\* authorData, whose authorName is the name as submitted; then res.json
AuthorWrite(r) ==
    /\ authorRequests[r].pc = "write"
    /\ LET req == authorRequests[r]
       IN  IF req.existing # NoProfile
             THEN /\ profiles' = updateStylometricAuthor(profiles, req.existing, req.user,
                                                         req.authorName)
                  /\ AuthorResponds(r, 200, {getStylometricAuthor(profiles, req.existing)}
                                               \ {NoProfile})
             ELSE /\ profiles' = createStylometricAuthor(profiles, req.user, req.authorName)
                  /\ authorRequests' =
                        [authorRequests EXCEPT ![r] =
                            [@ EXCEPT !.pc = "responded", !.status = 200,
                                      !.existing = Len(profiles) + 1,
                                      !.body = {Len(profiles) + 1}]]
    /\ UNCHANGED <<users, olderVars, analysisVars, chunkVars, replyVars>>

\* await storage.getStylometricAuthors(user.id); res.json
AuthorGetAuthors(r) ==
    /\ authorRequests[r].pc = "getAuthors"
    /\ AuthorResponds(r, 200, getStylometricAuthors(profiles, authorRequests[r].user))
    /\ UNCHANGED <<users, profiles, olderVars, analysisVars, chunkVars, replyVars>>

\* GET /api/stylometrics/author/:id: the row, 404 when there is none
AuthorGetAuthor(r) ==
    /\ authorRequests[r].pc = "GET"
    /\ LET author == getStylometricAuthor(profiles, authorRequests[r].id)
       IN  IF author = NoProfile THEN AuthorResponds(r, 404, {})
           ELSE AuthorResponds(r, 200, {author})
    /\ UNCHANGED <<users, profiles, olderVars, analysisVars, chunkVars, replyVars>>

\* DELETE /api/stylometrics/author/:id
AuthorDelete(r) ==
    /\ authorRequests[r].pc = "DELETE"
    /\ profiles' = deleteStylometricAuthor(profiles, authorRequests[r].id,
                                           authorRequests[r].username)
    /\ AuthorResponds(r, 200, {})
    /\ UNCHANGED <<users, olderVars, analysisVars, chunkVars, replyVars>>

AuthorUsernames == {Absent, "bob", " Bob ", "alice"}

AuthorNames == {"", "Kant", " Kant "}

ProfileIds == {1, 2}

InitAuthors == FeaturesIdle /\ ScoreIdle /\ LevelIdle /\ HandlersIdle

NextAuthors ==
    \E r \in AuthorRequesters :
        \/ \E username \in AuthorUsernames, authorName \in AuthorNames :
              SaveArrive(r, username, authorName)
        \/ \E kind \in {"authors", "export"}, username \in AuthorUsernames :
              ListArrive(r, kind, username)
        \/ \E kind \in {"GET", "DELETE"}, id \in ProfileIds, username \in AuthorUsernames :
              ByIdArrive(r, kind, id, username)
        \/ AuthorGetUser(r)
        \/ AuthorCreateUser(r)
        \/ AuthorGetByName(r)
        \/ AuthorWrite(r)
        \/ AuthorGetAuthors(r)
        \/ AuthorGetAuthor(r)
        \/ AuthorDelete(r)

SpecAuthors == InitAuthors /\ [][NextAuthors]_vars

----------------------------------------------------------------------------
(* Claims about the author profiles *)

\* the author name without the blanks before and after it
TrimmedName(authorName) ==
    SubSeq(authorName,
           CHOOSE i \in 1..Len(authorName) :
               CharAt(authorName, i) # " " /\ \A j \in 1..(i - 1) : CharAt(authorName, j) = " ",
           CHOOSE i \in 1..Len(authorName) :
               CharAt(authorName, i) # " "
               /\ \A j \in (i + 1)..Len(authorName) : CharAt(authorName, j) = " ")

\* C27: after any sequence of save requests, concurrent ones included, storage
\* holds at most one author profile per user and trimmed author name: a save
\* for a name already stored updates the profile and creates no second one,
\* also when the name comes with leading or trailing white space.
C27_OneProfilePerName ==
    \A i, j \in 1..Len(profiles) :
        (/\ i # j
         /\ profiles[i].live /\ profiles[j].live
         /\ profiles[i].userId = profiles[j].userId)
            => TrimmedName(profiles[i].authorName) # TrimmedName(profiles[j].authorName)

\* a save that found a profile of that name wrote to a profile of its own user
C27_UpdateCreatesNone ==
    \A r \in AuthorRequesters :
        LET req == authorRequests[r]
        IN  (req.kind = "save" /\ req.pc = "responded" /\ req.status = 200
             /\ req.existing # NoProfile /\ req.existing \in 1..Len(profiles))
                => profiles[req.existing].userId = req.user

\* the user a request is made for
OnBehalfOf(username) ==
    IF username = Absent THEN NoUser ELSE getUserRow(users, toLowerCase(trim(username)))

\* C28: an author profile is read through GET /api/stylometrics/author/:id or
\* removed through DELETE /api/stylometrics/author/:id only by a request made
\* for the user that owns it; any other request leaves it in storage and
\* does not return it.
C28_AuthorOwnerOnly ==
    /\ \A r \in AuthorRequesters :
          LET req == authorRequests[r]
          IN  (req.kind = "GET" /\ req.pc = "responded" /\ req.body # {})
                 => \A id \in req.body : profiles[id].userId = OnBehalfOf(req.username)
    /\ \A id \in 1..Len(profiles) :
          ~profiles[id].live => profiles[id].userId = OnBehalfOf(profiles[id].deletedFor)

\* C29: after a save has succeeded for the username string u, /authors and
\* /export asked with the same string u return the saved profile, for every
\* u that save accepts, upper case and surrounding white space included.
C29_SameUserEverywhere ==
    \A r \in AuthorRequesters :
        LET req == authorRequests[r]
        IN  (req.kind \in {"authors", "export"} /\ req.pc = "responded"
             /\ req.afterSave # NoProfile)
                => req.status = 200 /\ req.afterSave \in req.body

\* the part of C29 that holds: a username that is already trimmed and in
\* lower case
C29_HoldsForCleanUsernames ==
    \A r \in AuthorRequesters :
        LET req == authorRequests[r]
        IN  (req.kind \in {"authors", "export"} /\ req.pc = "responded"
             /\ req.afterSave # NoProfile /\ req.username = toLowerCase(trim(req.username)))
                => req.status = 200 /\ req.afterSave \in req.body

----------------------------------------------------------------------------
(* Claims about multi-chunk processing *)

\* a run over selected chunks has started
MultiChunkRun == Len(run.chunksToProcess) > 0

LoggedIn == run.username \notin {Absent, ""}

\* the run took the catch of a chunk
ChunkFailed == run.lastFailedChunkIndex # NoChunk

\* the results of the chunks that succeeded
Completed == SelectSeq(run.results, LAMBDA result : result # MalformedResult)

\* the chunks whose processing was started, in the order of the requests
Started ==
    LET chunkRequests == SelectSeq(run.sent, LAMBDA request : request.kind = "chunk")
    IN  [k \in 1..Len(chunkRequests) |-> chunkRequests[k].id]

SavesIssued == Len(SelectSeq(run.sent, LAMBDA request : request.kind = "save-partial"))

\* chunk k, then the save of k results when a user is logged in, then chunk
\* k + 1, and so on to the last chunk
RECURSIVE ExpectedRequests(_)
ExpectedRequests(k) ==
    IF k > Len(run.chunksToProcess) THEN <<>>
    ELSE <<ChunkRequest(run.chunksToProcess[k])>>
            \o (IF LoggedIn THEN <<SavePartialRequest(k, Len(run.chunksToProcess))>> ELSE <<>>)
            \o ExpectedRequests(k + 1)

IsPrefix(short, long) == Len(short) <= Len(long) /\ short = SubSeq(long, 1, Len(short))

\* C16: the selected chunks are processed one at a time in list order; each
\* result is appended and, when a user is logged in, a save-partial request
\* with chunksCompleted = the number of results is issued before the next
\* chunk starts; the first chunk that fails ends the run, no later chunk is
\* started, the earlier results are retained, and isProcessing is false when
\* the run has ended.
C16_ChunksInOrder ==
    MultiChunkRun =>
        /\ IsPrefix(run.sent, ExpectedRequests(1))
        /\ Started = SubSeq(run.chunksToProcess, 1, Len(Started))
        /\ Completed = SubSeq(run.chunksToProcess, 1, Len(Completed))
        /\ run.chunkResults = run.results
        /\ Len(Started) = Len(Completed) + (IF run.pc = "processChunk" \/ ChunkFailed THEN 1 ELSE 0)
        /\ run.pc = "save-partial" =>
              /\ LoggedIn
              /\ run.sent[Len(run.sent)] =
                     SavePartialRequest(Len(run.results), Len(run.chunksToProcess))
        /\ (LoggedIn /\ run.pc # "processChunk") => SavesIssued = Len(Completed)
        /\ ~LoggedIn => SavesIssued = 0
        /\ ChunkFailed =>
              /\ run.pc = "ended"
              /\ run.lastFailedChunkIndex = Started[Len(Started)]
              /\ Len(Completed) > 0 => run.result = Completed
        /\ (run.pc = "ended" /\ ~ChunkFailed) => Completed = run.chunksToProcess
        /\ run.isProcessing <=> run.pc # "ended"

\* a run of all the chunks by a logged-in user, ended by the failure of a
\* chunk after the first, with the result of the first chunk saved
C16_Witness ==
    /\ Len(run.chunksToProcess) = MaxChunks
    /\ LoggedIn /\ ChunkFailed /\ run.pc = "ended" /\ ~run.isProcessing
    /\ Len(Completed) >= 1
    /\ Len(partials) >= 1

----------------------------------------------------------------------------
(* Claims about the length check *)

\* a text, that is a string, of less than MinWords words
ShortText(v) == IsString(v) /\ SplitWordCount(v) < MinWords

\* the handler never goes on to computeRawFeatures and the LLM call with a
\* text that is not a string of at least MinWords words
NeverReachedShort ==
    gate.reached # "" =>
        \A i \in DOMAIN gate.texts :
            IsString(gate.texts[i]) /\ SplitWordCount(gate.texts[i]) >= MinWords

\* C15 (as claimed): no stylometrics endpoint reaches computeRawFeatures or
\* the LLM call for a text of fewer than 400 words; the request is answered
\* with 400, for /compare when either of the two texts is short.
C15_ShortTextIs400 ==
    /\ NeverReachedShort
    /\ (gate.endpoint # "none" /\ \E i \in DOMAIN gate.texts : ShortText(gate.texts[i])) =>
          (gate.status = 400 /\ gate.reached = "")

----------------------------------------------------------------------------
(* Claims about the intelligence score *)

\* the density of a text of the response, as the quotient it is
DensityOf(t) == Density(t.quoteCount, t.wordCount)

RatioLt(a, b) == ~RatioLe(b, a)

\* the score lies in the band of its density; the lower end of the bands
\* above the first is excluded when strict, included otherwise
InBand(t, strict) ==
    LET density == DensityOf(t)
        above(lo) == IF strict THEN t.score > lo ELSE t.score >= lo
    IN  /\ RatioLe(density, Ratio(1, 1)) => (0 <= t.score /\ t.score <= 30)
        /\ (RatioLt(Ratio(1, 1), density) /\ RatioLe(density, Ratio(3, 1))) =>
              (above(30) /\ t.score <= 65)
        /\ (RatioLt(Ratio(3, 1), density) /\ RatioLe(density, Ratio(6, 1))) =>
              (above(65) /\ t.score <= 90)
        /\ RatioLt(Ratio(6, 1), density) => (above(90) /\ t.score <= 100)

\* what the claim says besides the bands: the score is in 0..100, it is 0
\* without words, 30, 65 and 90 at the densities 1, 3 and 6, 100 from density
\* 10 on, it does not decrease with the density, and both endpoints map a
\* density to the same score
ScoreFacts ==
    /\ \A i \in DOMAIN intelligence.texts :
          LET t == intelligence.texts[i]
              density == DensityOf(t)
          IN  /\ t.score \in 0..100
              /\ t.wordCount = 0 => t.score = 0
              /\ density = Ratio(1000, 1000) => t.score = 30
              /\ density = Ratio(3000, 1000) => t.score = 65
              /\ density = Ratio(3000, 500) => t.score = 90
              /\ RatioLe(Ratio(10, 1), density) => t.score = 100
              /\ t.score = IntelligenceScore(density)
              /\ t.score = calculateScore(density)
    /\ \A i, j \in DOMAIN intelligence.texts :
          RatioLe(DensityOf(intelligence.texts[i]), DensityOf(intelligence.texts[j])) =>
             intelligence.texts[i].score <= intelligence.texts[j].score

\* C14 (as claimed): densities in [0,1] map to [0,30], in (1,3] to (30,65],
\* in (3,6] to (65,90], above 6 to (90,100]; the score is an integer in
\* [0,100], non-decreasing in the density, 30, 65 and 90 at 1, 3 and 6, 100
\* from 10 on, the same in both endpoints.
C14_BandsHalfOpen ==
    /\ ScoreFacts
    /\ \A i \in DOMAIN intelligence.texts : InBand(intelligence.texts[i], TRUE)

\* C14 (amended): the same with the bands closed at their lower ends:
\* densities in (1,3] map to [30,65], in (3,6] to [65,90], above 6 to
\* [90,100].
C14_BandsClosed ==
    /\ ScoreFacts
    /\ \A i \in DOMAIN intelligence.texts : InBand(intelligence.texts[i], FALSE)

\* a comparison of a text of density 1000/990, just above 1 and scored 30,
\* with one of density 1000/90, above 10 and scored 100
C14_Witness ==
    /\ intelligence.route = "compare"
    /\ intelligence.texts[1].wordCount = 990 /\ intelligence.texts[1].quoteCount = 1
    /\ intelligence.texts[1].score = 30
    /\ intelligence.texts[2].wordCount = 90 /\ intelligence.texts[2].quoteCount = 1
    /\ intelligence.texts[2].score = 100

----------------------------------------------------------------------------
(* Claims about the history endpoints *)

\* the user the request names, NoUser when it names none that exists
NamedUser(req) ==
    IF UsernameMissing(req.username) THEN NoUser ELSE getUserByUsername(TrimLower(req.username))

\* C13: a history request acts on an item only for its owner.  A request
\* without a username or with an unknown user is answered 401; one for an id
\* without a row 404; one for a row of another user 403, without the item in
\* the response.  Only a request of the owner is answered with the item or
\* deletes the row: a row that is gone was deleted by its owner's request,
\* and no request answered 401, 403 or 404 has deleted anything.
C13_OwnerOnly ==
    /\ \A id \in ItemIds :
          /\ deletedBy[id] # NoUser => deletedBy[id] = Owners[id]
          /\ history[id] = (IF deletedBy[id] = NoUser THEN Owners[id] ELSE NoRow)
    /\ \A r \in HistoryRequesters :
          LET req == historyRequests[r]
          IN  req.pc = "responded" =>
                /\ req.status \in {200, 401, 403, 404}
                /\ NamedUser(req) = NoUser <=> req.status = 401
                /\ (NamedUser(req) # NoUser /\ Owners[req.id] = NoRow) => req.status = 404
                /\ (NamedUser(req) # NoUser /\ Owners[req.id] \notin {NoRow, NamedUser(req)}) =>
                      req.status \in {403, 404}
                /\ req.status = 403 <=> (req.item # NoRow /\ req.item # NamedUser(req))
                /\ req.status # 200 => (req.body = NoRow /\ ~req.deleted)
                /\ req.status = 200 => Owners[req.id] = NamedUser(req)
                /\ req.body # NoRow => req.body = NamedUser(req)

\* bob's DELETE of alice's row 1 answered 403 while the row is still there,
\* and alice's own request for it answered 200
C13_Witness ==
    /\ historyRequests[1].pc = "responded" /\ historyRequests[1].method = "DELETE"
    /\ historyRequests[1].username = "bob" /\ historyRequests[1].id = 1
    /\ historyRequests[1].status = 403
    /\ history[1] = 1
    /\ historyRequests[2].username = " Alice " /\ historyRequests[2].id = 1
    /\ historyRequests[2].method = "GET" /\ historyRequests[2].status = 200

----------------------------------------------------------------------------
(* Claims about concurrent requests *)

\* what the invocation r would hold had it run alone: computeRawFeatures of
\* each text entered with fresh regular expressions, and the score and level
\* computed from that and from the LLM's entries for this request
Alone(req) ==
    LET a == computeRawFeatures(req.textA, ZeroLastIndexes)
        b == computeRawFeatures(req.textB, ZeroLastIndexes)
        fa == [threw |-> a.threw, value |-> a.value]
        fb == [threw |-> b.threw, value |-> b.value]
    IN  [rawFeaturesA |-> fa, rawFeaturesB |-> fb,
         scoredA |-> IF req.status = 200 THEN ScoreEntry(fa, req.llmResult[1])
                     ELSE [score |-> Pending, abs |-> NoAbstraction],
         scoredB |-> IF req.status = 200 THEN ScoreEntry(fb, req.llmResult[2])
                     ELSE [score |-> Pending, abs |-> NoAbstraction]]

\* C11: whatever other requests are in progress and however their steps
\* interleave, each invocation holds the results it would hold run alone,
\* and nothing the functions could share (the match positions of the regular
\* expressions) is left behind by an invocation.
C11_ConcurrentAsAlone ==
    /\ lastIndex = ZeroLastIndexes
    /\ \A r \in Requests :
          (requests[r].pc # "new" /\ requests[r].rawFeaturesB.threw = "") =>
             \E alone \in {Alone(requests[r])} :
                /\ requests[r].rawFeaturesA = alone.rawFeaturesA
                /\ requests[r].rawFeaturesB = alone.rawFeaturesB
                /\ requests[r].scoreA = alone.scoredA.score
                /\ requests[r].absA = alone.scoredA.abs
                /\ requests[r].scoreB = alone.scoredB.score
                /\ requests[r].absB = alone.scoredB.abs

\* request 2 arrived while request 1 was waiting for the LLM, with other
\* texts; both have been answered and scored
C11_Witness ==
    /\ requests[2].overlapped
    /\ requests[1].status = 200 /\ requests[2].status = 200
    /\ requests[1].textA # requests[2].textA
    /\ requests[1].scoreA # Pending /\ requests[2].scoreB # Pending
    /\ requests[1].rawFeaturesA.value.semicolonFreq > 0
    /\ requests[2].rawFeaturesA.value.questionFreq > 0

----------------------------------------------------------------------------
(* Claims about computeRawFeatures *)

FeaturesCalled == features.threw # "not called"

FeaturesReturned == features.threw = ""

\* the text is empty or made of whitespace only
OnlyWhitespace(s) == RemoveChars(s, WhitespaceChars) = ""

RateFields ==
    {"egoPronounRate", "semicolonFreq", "colonFreq", "dashFreq", "questionFreq",
     "impersonalRate"}

\* C4 (as claimed): computeRawFeatures returns a RawFeatures value without
\* throwing for every input string, of any length and content.
C4_NeverThrows == FeaturesCalled => FeaturesReturned

\* C5: for the empty string and for every text of whitespace only,
\* computeRawFeatures returns wordCount 0, every rate and frequency 0,
\* avgSentenceLength 0, maxSentenceLength 0 and subordinationDepth 1.
C5_EmptyTextIsZero ==
    (FeaturesCalled /\ OnlyWhitespace(inputText)) =>
        /\ FeaturesReturned
        /\ features.value.wordCount = 0
        /\ \A field \in RateFields : features.value[field] = 0
        /\ features.value.avgSentenceLength = 0
        /\ features.value.maxSentenceLength = 0
        /\ features.value.subordinationDepth = 100

\* a call with a text of several whitespace characters
C5_Witness ==
    /\ FeaturesReturned
    /\ pieceCount >= 2
    /\ Len(inputText) >= 2
    /\ OnlyWhitespace(inputText)
    /\ features.value = ZeroFeatures

C10_Deterministic ==
    FeaturesCalled =>
        /\ \E fresh \in {computeRawFeatures(inputText, ZeroLastIndexes)} :
              features = [threw |-> fresh.threw, value |-> fresh.value]
        /\ inputText = firstCall.text /\ firstCall # NoFirstCall =>
              features = [threw |-> firstCall.threw, value |-> firstCall.value]
        /\ lastIndex = ZeroLastIndexes

\* the text ";" analysed a second time, after calls with longer texts in
\* which the expressions matched, with the result of the first time
C10_Witness ==
    /\ revisited
    /\ inputText = ";"
    /\ firstCall.text = ";"
    /\ features.value.semicolonFreq = 100000
    /\ features.value = firstCall.value

----------------------------------------------------------------------------
(* Claims about the words and sentences computeRawFeatures counts *)

\* s without the characters of the class at its beginning and at its end
RECURSIVE StripSurrounding(_, _)
StripSurrounding(s, chars) ==
    IF s = "" THEN ""
    ELSE IF CharAt(s, 1) \in chars THEN StripSurrounding(SubSeq(s, 2, Len(s)), chars)
    ELSE IF CharAt(s, Len(s)) \in chars THEN StripSurrounding(SubSeq(s, 1, Len(s) - 1), chars)
    ELSE s

\* the words that are an ego pronoun once the punctuation around them is
\* removed
SurroundedEgoCount ==
    Len(SelectSeq(tokens,
        LAMBDA word : StripSurrounding(toLowerCase(word), EgoStripChars) \in egoPronounsList))

\* a word that ends with . ! or ? ends a fragment: a blank follows it
EndsFragment(word) == CharAt(word, Len(word)) \in SentenceEndChars

\* the numbers of words of the fragments of the text, the words counted as
\* they were written
RECURSIVE FragmentWordCounts(_, _, _)
FragmentWordCounts(ws, k, current) ==
    IF k > Len(ws) THEN <<current>>
    ELSE IF EndsFragment(ws[k]) THEN <<current + 1>> \o FragmentWordCounts(ws, k + 1, 0)
    ELSE FragmentWordCounts(ws, k + 1, current + 1)

\* the fragments of more than 2 words
QualifyingWordCounts == SelectSeq(FragmentWordCounts(tokens, 1, 0), LAMBDA n : n > 2)

\* the words that are a subordinator once the characters of the class are
\* removed
SubordinatorsWithout(chars) ==
    Len(SelectSeq(tokens, LAMBDA word : RemoveChars(toLowerCase(word), chars) \in subordinators))

\* (count / sentenceCount) * 1.5 clamped to [1, 7] and rounded to one
\* decimal, 1 without a sentence; in hundredths
ClaimedDepth(count, sentenceCount) ==
    IF sentenceCount = 0 THEN 100
    ELSE IF 3 * count <= 2 * sentenceCount THEN 100
    ELSE IF 3 * count >= 14 * sentenceCount THEN 700
    ELSE 10 * ((2 * 30 * count + 2 * sentenceCount) \div (4 * sentenceCount))

\* C17 (as claimed): a word counts as an ego pronoun exactly when it is in
\* the list after lower-casing and removing the punctuation that surrounds
\* it, punctuation inside it staying (U.S. and I'm are not counted);
\* egoPronounRate is count / wordCount * 1000 and never exceeds 1000.
C17_EgoSurroundingOnly ==
    (FeaturesReturned /\ tokens # <<>>) =>
        /\ features.value.egoPronounRate =
              RoundTo2(Ratio(SurroundedEgoCount * 1000, features.value.wordCount))
        /\ features.value.egoPronounRate <= 1000 * 100

\* C18 (as claimed): for every text, avgSentenceLength is the mean and
\* maxSentenceLength the maximum of the numbers of words of the fragments
\* of more than 2 words, and both are 0 when there is no such fragment.
C18_MeanAndMaximum ==
    (FeaturesCalled /\ tokens # <<>>) =>
        /\ FeaturesReturned
        /\ IF Len(QualifyingWordCounts) = 0
           THEN features.value.avgSentenceLength = 0 /\ features.value.maxSentenceLength = 0
           ELSE /\ features.value.avgSentenceLength * Len(QualifyingWordCounts) =
                      100 * SumSeq(QualifyingWordCounts)
                /\ features.value.maxSentenceLength = MaxSeq(QualifyingWordCounts)

\* C19 (as claimed): for every text, subordinationDepth is in [1, 7]: 1
\* without a qualifying sentence, otherwise (subordinatorCount /
\* sentenceCount) * 1.5 clamped to [1, 7] and rounded to one decimal, the
\* subordinators counted over all the words of the text.
C19_DepthInRange ==
    (FeaturesCalled /\ tokens # <<>>) =>
        /\ FeaturesReturned
        /\ features.value.subordinationDepth >= 100
        /\ features.value.subordinationDepth <= 700
        /\ features.value.subordinationDepth =
              ClaimedDepth(SubordinatorsWithout(SubordinatorStripChars), Len(QualifyingWordCounts))

\* C20 (as claimed): a subordinator is counted with the punctuation
\* . , ; : ! ? " ' removed, as an ego pronoun is: because, if? when! and
\* "that" are counted in subordinatorCount.
C20_SubordinatorsStrippedAsEgo ==
    (FeaturesReturned /\ tokens # <<>>) =>
        features.value.subordinationDepth =
            ClaimedDepth(SubordinatorsWithout(EgoStripChars), Len(QualifyingWordCounts))

----------------------------------------------------------------------------
(* Claims about the colons and the impersonal constructions *)

\* the positions of the word that hold a colon
ColonsOf(word) == {i \in 1..Len(word) : CharAt(word, i) = ":"}

\* the colons of the word that stand directly between two digits
ColonsBetweenDigits(word) ==
    {i \in ColonsOf(word) :
        /\ i > 1 /\ i < Len(word)
        /\ CharAt(word, i - 1) \in Digits
        /\ CharAt(word, i + 1) \in Digits}

\* the number of colons of the text that do not stand between two digits
RECURSIVE ColonsNotBetweenDigits(_)
ColonsNotBetweenDigits(ws) ==
    IF ws = <<>> THEN 0
    ELSE Cardinality(ColonsOf(Head(ws)) \ ColonsBetweenDigits(Head(ws)))
            + ColonsNotBetweenDigits(Tail(ws))

\* C21 (as claimed): colonFreq counts exactly the colons that do not stand
\* directly between two digits, per 1000 words; in 1:2:3 and 12:30:45 every
\* colon is between digits and the count is 0.
C21_ColonsNotBetweenDigits ==
    (FeaturesReturned /\ tokens # <<>>) =>
        features.value.colonFreq =
            RoundTo2(Ratio(ColonsNotBetweenDigits(tokens) * 1000, features.value.wordCount))

\* the 20 patterns word by word, "there exists?" in its two spellings
ImpersonalWordings ==
    <<<<"it", "is">>, <<"it", "was">>, <<"it", "has", "been">>, <<"it", "would", "be">>,
      <<"there", "is">>, <<"there", "are">>, <<"there", "was">>, <<"there", "were">>,
      <<"there", "exists">>, <<"there", "exist">>, <<"one", "may">>, <<"one", "can">>,
      <<"one", "cannot">>, <<"one", "must">>, <<"one", "might">>,
      <<"this", "does", "not", "mean">>, <<"what", "this", "indicates">>,
      <<"it", "is", "to", "be", "noted">>, <<"to", "the", "extent", "that">>,
      <<"insofar", "as">>, <<"inasmuch", "as">>>>

RECURSIVE DropLeading(_, _)
DropLeading(s, chars) ==
    IF s # "" /\ CharAt(s, 1) \in chars THEN DropLeading(SubSeq(s, 2, Len(s)), chars) ELSE s

RECURSIVE DropTrailing(_, _)
DropTrailing(s, chars) ==
    IF s # "" /\ CharAt(s, Len(s)) \in chars
    THEN DropTrailing(SubSeq(s, 1, Len(s) - 1), chars) ELSE s

\* the words of the text from the k-th on are those of the wording, in any
\* case, punctuation before the first and after the last set aside
WordingAt(ws, k, wording) ==
    /\ k + Len(wording) - 1 <= Len(ws)
    /\ \A j \in 1..Len(wording) :
          LET lower == toLowerCase(ws[k + j - 1])
              inner == IF j = 1 THEN DropLeading(lower, EgoStripChars) ELSE lower
          IN  wording[j] = (IF j = Len(wording) THEN DropTrailing(inner, EgoStripChars) ELSE inner)

\* the occurrences of the wordings from the n-th on, each wording counted
\* by itself
RECURSIVE ImpersonalOccurrences(_, _)
ImpersonalOccurrences(ws, n) ==
    IF n > Len(ImpersonalWordings) THEN 0
    ELSE Cardinality({k \in 1..Len(ws) : WordingAt(ws, k, ImpersonalWordings[n])})
            + ImpersonalOccurrences(ws, n + 1)

\* C22: impersonalRate is impersonalCount per 1000 words, impersonalCount
\* the sum over the 20 patterns of each pattern's matches in the whole
\* text, in any case; text matched by two patterns counts once for each
\* ("it is to be noted" adds 2).
C22_ImpersonalPerPattern ==
    (FeaturesReturned /\ tokens # <<>>) =>
        features.value.impersonalRate =
            RoundTo2(Ratio(ImpersonalOccurrences(tokens, 1) * 1000, features.value.wordCount))

\* "it is to be noted." after "It IS": 3 matches in 7 words
C22_Witness ==
    /\ FeaturesReturned
    /\ tokens = <<"It", "IS", "it", "is", "to", "be", "noted.">>
    /\ ImpersonalOccurrences(tokens, 1) = 3
    /\ features.value.impersonalRate = 42857

----------------------------------------------------------------------------
(* Claims about the sentence statistics *)

\* C30: in the RawFeatures that computeRawFeatures returns, for every text,
\* avgSentenceLength <= maxSentenceLength <= wordCount, and whenever
\* maxSentenceLength > 0 both are at least 3 (avgSentenceLength is held in
\* hundredths).
C30_SentenceStatisticsOrdered ==
    FeaturesReturned =>
        /\ features.value.avgSentenceLength <= 100 * features.value.maxSentenceLength
        /\ features.value.maxSentenceLength <= features.value.wordCount
        /\ features.value.maxSentenceLength > 0 =>
              /\ features.value.avgSentenceLength >= 300
              /\ features.value.maxSentenceLength >= 3

\* a sentence of three and one of five words: the mean 4 lies below the
\* maximum 5, which lies below the 8 words of the text
C30_Witness ==
    /\ tokens = <<"we", "saw", "it.", "it", "is", "to", "be", "noted.">>
    /\ FeaturesReturned
    /\ features.value.avgSentenceLength = 400
    /\ features.value.maxSentenceLength = 5
    /\ features.value.wordCount = 8

----------------------------------------------------------------------------
(* Claims about computeVerticalityScore *)

Scored == verticalityScore # Pending

RecognizedMetaphor == {"none", "low", "moderate", "high"}
RecognizedAnecdote == {"none", "rare", "occasional", "frequent"}

ValidEnums == metaphorDensity \in RecognizedMetaphor /\ anecdoteFrequency \in RecognizedAnecdote

\* C1: for finite RawFeatures and every valid pair of enum values the score is
\* a number s with 0.00 <= s <= 1.00 that is a multiple of 0.01.
C1_ScoreInUnitRange ==
    (Scored /\ ValidEnums) =>
        /\ IsFinite(verticalityScore)
        /\ 0 <= verticalityScore
        /\ verticalityScore <= 1000
        /\ verticalityScore % 10 = 0

\* a call with valid enums whose fields lie beyond both ends of their ranges
\* and whose score is the upper end 1.00
C1_Witness ==
    /\ Scored /\ ValidEnums
    /\ rawFeatures.egoPronounRate < 0
    /\ rawFeatures.impersonalRate > 2000
    /\ verticalityScore = 1000

Clamp(v, lo, hi) == Max2(lo, Min2(hi, v))

\* weight wn/wd times clamp01((v - lo)/(hi - lo)) in units of 1/One, v, lo, hi
\* in hundredths
ClaimTerm(wn, wd, v, lo, hi) == ((One * wn) \div (wd * (hi - lo))) * (Clamp(v, lo, hi) - lo)

ClaimEnumScore(table, key) == (((One * 75) \div 1000) * table[key]) \div 100

\* the weighted sum as the claim writes it, in units of 1/One
ClaimSum(f, m, a) ==
      ((One * 25) \div 100 - ClaimTerm(25, 100, f.egoPronounRate, 0, 8000))
    + ClaimTerm(15, 100, f.impersonalRate, 0, 2000)
    + ClaimTerm(15, 100, f.subordinationDepth, 100, 700)
    + ClaimTerm(10, 100, f.semicolonFreq, 0, 1500)
    + ((One * 10) \div 100 - ClaimTerm(10, 100, f.dashFreq, 0, 2000))
    + ((One * 10) \div 100 - ClaimTerm(10, 100, f.questionFreq, 0, 1000))
    + ClaimEnumScore([none |-> 100, low |-> 75, moderate |-> 50, high |-> 0], m)
    + ClaimEnumScore([none |-> 100, rare |-> 75, occasional |-> 50, frequent |-> 0], a)

Abs(x) == IF x < 0 THEN 0 - x ELSE x

\* C2: the score is the weighted sum of the claim, clamped to [0,1] and rounded
\* to two decimals (a hundredth nearest to it), whatever avgSentenceLength,
\* maxSentenceLength, colonFreq and wordCount are.
C2_ScoreIsWeightedSum ==
    (Scored /\ ValidEnums) =>
        /\ IsFinite(verticalityScore)
        /\ verticalityScore % 10 = 0
        /\ 2 * Abs((verticalityScore \div 10) * One
                   - 100 * Clamp(ClaimSum(rawFeatures, metaphorDensity, anecdoteFrequency), 0, One))
              <= One

\* a call with every normalised feature strictly inside (0,1), the unread
\* fields non-zero and both enum scores fractional; the sum is 0.525, halfway
\* between two hundredths, and the score the lower of them
C2_Witness ==
    /\ Scored
    /\ metaphorDensity = "low" /\ anecdoteFrequency = "rare"
    /\ rawFeatures.egoPronounRate = 6000
    /\ rawFeatures.impersonalRate = 1500
    /\ rawFeatures.subordinationDepth = 550
    /\ rawFeatures.semicolonFreq = 1125
    /\ rawFeatures.dashFreq = 1500
    /\ rawFeatures.questionFreq = 750
    /\ rawFeatures.colonFreq = 2500 /\ rawFeatures.wordCount = 1000
    /\ verticalityScore = 520

\* C3 (as claimed): an unrecognized or absent metaphorDensity scores as
\* "moderate" does, an unrecognized or absent anecdoteFrequency as
\* "occasional" does.
C3_UnrecognizedIsDefault ==
    Scored =>
        /\ metaphorDensity \notin RecognizedMetaphor =>
              verticalityScore =
                 computeVerticalityScore(rawFeatures, "moderate", anecdoteFrequency, fpTieUp)
        /\ anecdoteFrequency \notin RecognizedAnecdote =>
              verticalityScore =
                 computeVerticalityScore(rawFeatures, metaphorDensity, "occasional", fpTieUp)

\* C7: of two calls that differ in egoPronounRate only, the one with the
\* higher rate never has the higher score, and two rates at or above 80 have
\* the same score.
C7_MonotoneInEgo ==
    (Scored /\ prevEgo.score # Pending) =>
        /\ prevEgo.egoPronounRate <= rawFeatures.egoPronounRate =>
              ~Gt(verticalityScore, prevEgo.score)
        /\ prevEgo.egoPronounRate >= rawFeatures.egoPronounRate =>
              ~Gt(prevEgo.score, verticalityScore)
        /\ (IsFinite(verticalityScore) /\ prevEgo.egoPronounRate <= rawFeatures.egoPronounRate) =>
              prevEgo.score >= verticalityScore
        /\ (prevEgo.egoPronounRate >= 8000 /\ rawFeatures.egoPronounRate >= 8000) =>
              verticalityScore = prevEgo.score

\* two calls, the second with the higher rate and the strictly lower score
C7_Witness ==
    /\ Scored /\ prevEgo.score # Pending
    /\ prevEgo.egoPronounRate = 0 /\ rawFeatures.egoPronounRate = 6000
    /\ IsFinite(verticalityScore)
    /\ verticalityScore < prevEgo.score

\* C9: the features of a text without pronouns, subordinators or counted
\* punctuation, scored with none/none, give exactly 0.60, and
\* getAbstractionLevel of it is High Abstraction.
C9_PlainTextScores060 ==
    (/\ Scored
     /\ rawFeatures.egoPronounRate = 0 /\ rawFeatures.impersonalRate = 0
     /\ rawFeatures.subordinationDepth = 100 /\ rawFeatures.semicolonFreq = 0
     /\ rawFeatures.dashFreq = 0 /\ rawFeatures.questionFreq = 0
     /\ metaphorDensity = "none" /\ anecdoteFrequency = "none")
    => (verticalityScore = 600 /\ abstraction.level = "High Abstraction")

\* the 1000-word text of 10-word sentences, scored
C9_Witness ==
    /\ Scored
    /\ rawFeatures.wordCount = 1000 /\ rawFeatures.avgSentenceLength = 1000
    /\ rawFeatures.egoPronounRate = 0 /\ rawFeatures.impersonalRate = 0
    /\ rawFeatures.subordinationDepth = 100 /\ rawFeatures.semicolonFreq = 0
    /\ rawFeatures.dashFreq = 0 /\ rawFeatures.questionFreq = 0
    /\ metaphorDensity = "none" /\ anecdoteFrequency = "none"
    /\ abstraction.level = "High Abstraction"

----------------------------------------------------------------------------
(* Claims about getAbstractionLevel *)

LevelNames ==
    <<"Extreme Concreteness", "Low Abstraction", "Mixed", "High Abstraction", "Extreme Abstraction">>

\* the number of boundaries of the table at or below the score
BoundariesReached(score) == Cardinality({t \in Boundaries : score # NaN /\ score >= t})

LevelRank(level) == CHOOSE i \in 1..5 : LevelNames[i] = level

\* C8: the level is the one of the top-down table, every boundary inclusive;
\* the level does not decrease when the score grows; two calls give the same
\* description exactly when they give the same level.
C8_LevelTable ==
    levelScore # Pending =>
        /\ levelResult.level = LevelNames[BoundariesReached(levelScore) + 1]
        /\ levelScore = 850 => levelResult.level = "Extreme Abstraction"
        /\ levelScore = 849 => levelResult.level = "High Abstraction"
        /\ levelScore = 0 => levelResult.level = "Extreme Concreteness"
        /\ levelResult.description # ""
        /\ prevLevel.score # Pending =>
              /\ (prevLevel.level = levelResult.level) <=> (prevLevel.description = levelResult.description)
              /\ (IsFinite(prevLevel.score) /\ IsFinite(levelScore) /\ prevLevel.score <= levelScore) =>
                     LevelRank(prevLevel.level) <= LevelRank(levelResult.level)

\* 0.849 classified High Abstraction, then 0.85 classified Extreme Abstraction
C8_Witness ==
    /\ prevLevel.score = 849 /\ prevLevel.level = "High Abstraction"
    /\ levelScore = 850 /\ levelResult.level = "Extreme Abstraction"
    /\ levelResult.description # prevLevel.description

ClassificationNames ==
    <<"Extreme Horizontal", "Low Vertical / Moderate Horizontal", "Mid-Range", "High Vertical",
      "Extreme Vertical">>

\* the tier of a classification, counted from the top of its table
ClassificationTier(name) == 6 - (CHOOSE i \in 1..5 : ClassificationNames[i] = name)

\* the tier of an abstraction level, counted from the top of its table
LevelTier(level) == 6 - LevelRank(level)

\* C12: getVerticalityClassification follows its own table (0.85, 0.70, 0.40,
\* 0.20, boundaries inclusive); its tier is the tier of getAbstractionLevel
\* for every score outside [0.60, 0.70), and there it is the third tier,
\* Mid-Range, where getAbstractionLevel gives the second, High Abstraction.
C12_ClassificationTiers ==
    levelScore # Pending =>
        /\ classification =
              ClassificationNames[Cardinality({t \in ClassificationBoundaries :
                                                 levelScore # NaN /\ levelScore >= t}) + 1]
        /\ (IsFinite(levelScore) /\ levelScore >= 600 /\ levelScore < 700) =>
              /\ levelResult.level = "High Abstraction"
              /\ classification = "Mid-Range"
        /\ ~(IsFinite(levelScore) /\ levelScore >= 600 /\ levelScore < 700) =>
              ClassificationTier(classification) = LevelTier(levelResult.level)

\* the score 0.65, where the two tables differ
C12_Witness ==
    /\ levelScore = 650
    /\ levelResult.level = "High Abstraction"
    /\ classification = "Mid-Range"
    /\ ClassificationTier(classification) = 3
    /\ LevelTier(levelResult.level) = 2

====
